---- MODULE Spec2Model ----
(***************************************************************************)
(* Model of scripts/parse-all.js: the lockfile parsers, the dispatcher     *)
(* loop of main, the deduplication and writeInventory.                     *)
(*                                                                         *)
(* JavaScript strings are sequences of one-character strings, so that      *)
(* split, trim, replace, includes, endsWith, toLowerCase and the template  *)
(* literal of the deduplication key are computed as the code computes      *)
(* them.  A parsed JSON document is a tagged value (JNull, JStr, JBool,    *)
(* JObj with its entries in insertion order, JArr).                        *)
(***************************************************************************)
EXTENDS Integers, Sequences, FiniteSets, TLC

\* The state of a run of main: the environment, the position in main, its
\* variables (entryType and entryPath are type and filePath of the loop), the
\* inventory file and the number of times it was written, and the parser
\* calls made so far
VARIABLES LOCKFILES, INCLUDE_DEV, pc, lockfileList, idx, entryType, entryPath,
          allDependencies, unique, inventory, writes, calls,
          \* what writeInventory read from process.env.GITHUB_OUTPUT, the path it
          \* wrote the inventory to, and what it appended to the output file
          GITHUB_OUTPUT, outputPath, githubOutput,
          \* The state of a run of submit.sh: its environment, the inventory
          \* file at INVENTORY_PATH, its position, its shell variables, the exit
          \* status of curl, whether response.txt exists, the lines it appended
          \* to $GITHUB_OUTPUT and its exit status (-1 while it runs)
          WORKER_URL, AUTH_TOKEN, FAIL_ON_ERROR, inventoryFile, shPc,
          PACKAGES_COUNT, HTTP_CODE, curlStatus, responseFile, stepOutput,
          exitStatus

mainVars == <<LOCKFILES, INCLUDE_DEV, pc, lockfileList, idx, entryType, entryPath,
              allDependencies, unique, inventory, writes, calls,
              GITHUB_OUTPUT, outputPath, githubOutput>>

submitVars == <<WORKER_URL, AUTH_TOKEN, FAIL_ON_ERROR, inventoryFile, shPc,
                PACKAGES_COUNT, HTTP_CODE, curlStatus, responseFile, stepOutput,
                exitStatus>>

vars == <<mainVars, submitVars>>

\* ------------------------------------------------------------------------
\* Bounds of the model
\* ------------------------------------------------------------------------

\* the largest number of comma-separated entries of LOCKFILES
MaxEntries == 2

\* ------------------------------------------------------------------------
\* JavaScript string operations
\* ------------------------------------------------------------------------

Lower == <<"a","b","c","d","e","f","g","h","i","j","k","l","m",
           "n","o","p","q","r","s","t","u","v","w","x","y","z">>

Upper == <<"A","B","C","D","E","F","G","H","I","J","K","L","M",
           "N","O","P","Q","R","S","T","U","V","W","X","Y","Z">>

DigitChars == <<"0","1","2","3","4","5","6","7","8","9">>

Range(s) == {s[i] : i \in 1..Len(s)}

Digits == Range(DigitChars)

\* \s of a JavaScript regular expression, and what trim() removes
SpaceChars == {" ", "\t", "\n", "\r"}

IsSpace(c) == c \in SpaceChars

\* String.prototype.toLowerCase, one character
LowerChar(c) ==
    IF \E i \in 1..Len(Upper) : Upper[i] = c
    THEN Lower[CHOOSE i \in 1..Len(Upper) : Upper[i] = c]
    ELSE c

toLowerCase(s) == [i \in 1..Len(s) |-> LowerChar(s[i])]

\* s has p at position i (1-based)
MatchAt(s, p, i) ==
    /\ i >= 1
    /\ i + Len(p) - 1 <= Len(s)
    /\ \A j \in 1..Len(p) : s[i + j - 1] = p[j]

startsWith(s, p) == MatchAt(s, p, 1)

endsWith(s, p) == MatchAt(s, p, Len(s) - Len(p) + 1)

includes(s, p) == \E i \in 1..(Len(s) + 1) : MatchAt(s, p, i)

\* the least element of a non-empty set of positions
Least(positions) == CHOOSE i \in positions : \A k \in positions : i <= k

\* first position >= from where p occurs in s, 0 when there is none
IndexFrom(s, p, from) ==
    LET hits == {i \in from..(Len(s) - Len(p) + 1) : MatchAt(s, p, i)}
    IN  IF hits = {} THEN 0 ELSE Least(hits)

\* String.prototype.split with a non-empty string separator
RECURSIVE split(_, _)
split(s, sep) ==
    LET i == IndexFrom(s, sep, 1)
    IN  IF i = 0
        THEN <<s>>
        ELSE <<SubSeq(s, 1, i - 1)>> \o split(SubSeq(s, i + Len(sep), Len(s)), sep)

\* Array.prototype.join
RECURSIVE join(_, _)
join(parts, sep) ==
    IF parts = <<>> THEN <<>>
    ELSE IF Len(parts) = 1 THEN parts[1]
    ELSE parts[1] \o sep \o join(Tail(parts), sep)

\* String.prototype.trim
trim(s) ==
    IF \A i \in 1..Len(s) : IsSpace(s[i])
    THEN <<>>
    ELSE LET a == CHOOSE i \in 1..Len(s) :
                     ~IsSpace(s[i]) /\ \A k \in 1..(i - 1) : IsSpace(s[k])
             b == CHOOSE i \in 1..Len(s) :
                     ~IsSpace(s[i]) /\ \A k \in (i + 1)..Len(s) : IsSpace(s[k])
         IN  SubSeq(s, a, b)

\* the set of positions of s whose character is in the set class
Positions(s, class) == {i \in 1..Len(s) : s[i] \in class}

\* the number of consecutive positions from i on that are in the set ok: the
\* length of a greedy run of a character class
RunLen(s, i, ok) ==
    LET stops == {j \in i..Len(s) : j \notin ok}
    IN  IF i > Len(s) THEN 0
        ELSE IF stops = {} THEN Len(s) + 1 - i
        ELSE Least(stops) - i

\* String.prototype.split(/\s+/)
RECURSIVE splitWs(_)
splitWs(s) ==
    LET sp == Positions(s, SpaceChars)
    IN  IF sp = {}
        THEN <<s>>
        ELSE LET i == Least(sp)
                 n == RunLen(s, i, sp)
             IN  <<SubSeq(s, 1, i - 1)>> \o splitWs(SubSeq(s, i + n, Len(s)))

\* String.prototype.replace(p, '') with a string pattern: the first occurrence
replaceFirst(s, p) ==
    LET i == IndexFrom(s, p, 1)
    IN  IF i = 0 THEN s
        ELSE SubSeq(s, 1, i - 1) \o SubSeq(s, i + Len(p), Len(s))

\* ------------------------------------------------------------------------
\* String constants of the program
\* ------------------------------------------------------------------------

\* the string literals of parse-all.js, and "yarn", a type it has no case for
Str ==
    [npm |-> <<"n","p","m">>,
     pypi |-> <<"p","y","p","i">>,
     go |-> <<"g","o">>,
     rubygems |-> <<"r","u","b","y","g","e","m","s">>,
     cargo |-> <<"c","a","r","g","o">>,
     composer |-> <<"c","o","m","p","o","s","e","r">>,
     nuget |-> <<"n","u","g","e","t">>,
     maven |-> <<"m","a","v","e","n">>,
     requirements |-> <<"r","e","q","u","i","r","e","m","e","n","t","s">>,
     poetry |-> <<"p","o","e","t","r","y">>,
     packages |-> <<"p","a","c","k","a","g","e","s">>,
     dependencies |-> <<"d","e","p","e","n","d","e","n","c","i","e","s">>,
     devDependencies |-> <<"d","e","v","D","e","p","e","n","d","e","n","c","i","e","s">>,
     version |-> <<"v","e","r","s","i","o","n">>,
     dev |-> <<"d","e","v">>,
     test |-> <<"t","e","s","t">>,
     name |-> <<"n","a","m","e">>,
     packages_dev |-> <<"p","a","c","k","a","g","e","s","-","d","e","v">>,
     resolved |-> <<"r","e","s","o","l","v","e","d">>,
     requested |-> <<"r","e","q","u","e","s","t","e","d">>,
     node_modules |-> <<"n","o","d","e","_","m","o","d","u","l","e","s","/">>,
     star |-> <<"*">>,
     colon |-> <<":">>,
     comma |-> <<",">>,
     newline |-> <<"\n">>,
     package_header |-> <<"[","[","p","a","c","k","a","g","e","]","]">>,
     category |-> <<"c","a","t","e","g","o","r","y">>,
     go_mod_suffix |-> <<"/","g","o",".","m","o","d">>,
     go_sum |-> <<"g","o",".","s","u","m">>,
     require_open |-> <<"r","e","q","u","i","r","e"," ","(">>,
     require_space |-> <<"r","e","q","u","i","r","e"," ">>,
     slashes |-> <<"/","/">>,
     specs |-> <<"s","p","e","c","s",":">>,
     dm_open |-> <<"<","d","e","p","e","n","d","e","n","c","y","M","a","n","a","g","e","m","e","n","t",">">>,
     dm_close |-> <<"<","/","d","e","p","e","n","d","e","n","c","y","M","a","n","a","g","e","m","e","n","t",">">>,
     dep_open |-> <<"<","d","e","p","e","n","d","e","n","c","y",">">>,
     dep_close |-> <<"<","/","d","e","p","e","n","d","e","n","c","y",">">>,
     placeholder |-> <<"$","{">>,
     groupId |-> <<"g","r","o","u","p","I","d">>,
     artifactId |-> <<"a","r","t","i","f","a","c","t","I","d">>,
     scope |-> <<"s","c","o","p","e">>,
     yarn |-> <<"y","a","r","n">>,
     inventory_file |-> <<".","c","a","n","a","r","y","-","i","n","v","e","n","t","o","r","y",".","j","s","o","n">>,
     packages_count |-> <<"p","a","c","k","a","g","e","s","_","c","o","u","n","t","=">>,
     inventory_path |-> <<"i","n","v","e","n","t","o","r","y","_","p","a","t","h","=">>,
     dot |-> <<".">>,
     true |-> <<"t","r","u","e">>,
     false |-> <<"f","a","l","s","e">>,
     status_success |-> <<"s","t","a","t","u","s","=","s","u","c","c","e","s","s">>,
     status_failed |-> <<"s","t","a","t","u","s","=","f","a","i","l","e","d">>,
     slash |-> <<"/">>]

\* ------------------------------------------------------------------------
\* JavaScript values (the result of JSON.parse, and undefined)
\* ------------------------------------------------------------------------

JUndef == [t |-> "undefined"]
JNull == [t |-> "null"]
JBool(b) == [t |-> "bool", b |-> b]
JStr(s) == [t |-> "str", s |-> s]
JArr(items) == [t |-> "arr", a |-> items]
\* an object: its own properties in insertion order, each [k |-> key, v |-> value]
JObj(entries) == [t |-> "obj", e |-> entries]
P(k, v) == [k |-> k, v |-> v]

\* ToBoolean
Truthy(v) ==
    CASE v.t = "undefined" -> FALSE
      [] v.t = "null" -> FALSE
      [] v.t = "bool" -> v.b
      [] v.t = "str" -> v.s # <<>>
      [] OTHER -> TRUE

\* reading a property of null or undefined throws a TypeError
Nullish(v) == v.t \in {"null", "undefined"}

\* v[key] for a value v that is not nullish
Get(v, key) ==
    IF v.t = "obj" /\ \E i \in 1..Len(v.e) : v.e[i].k = key
    THEN v.e[CHOOSE i \in 1..Len(v.e) : v.e[i].k = key].v
    ELSE JUndef

\* the decimal numeral of an array index below 10
IndexKey(i) == <<DigitChars[i + 1]>>

\* Object.entries / Object.values of a value that is not nullish
Entries(v) ==
    CASE v.t = "obj" -> v.e
      [] v.t = "arr" -> [i \in 1..Len(v.a) |-> P(IndexKey(i - 1), v.a[i])]
      [] v.t = "str" -> [i \in 1..Len(v.s) |-> P(IndexKey(i - 1), JStr(<<v.s[i]>>))]
      [] OTHER -> <<>>

\* String(v), the conversion of a template literal
ToStr(v) ==
    CASE v.t = "str" -> v.s
      [] v.t = "bool" -> IF v.b THEN <<"t","r","u","e">> ELSE <<"f","a","l","s","e">>
      [] v.t = "null" -> <<"n","u","l","l">>
      [] v.t = "undefined" -> <<"u","n","d","e","f","i","n","e","d">>
      [] v.t = "arr" -> <<>>
      [] OTHER -> <<"[","o","b","j","e","c","t"," ","O","b","j","e","c","t","]">>

\* ------------------------------------------------------------------------
\* Dependency records and parser results
\* ------------------------------------------------------------------------

\* the object literal every parser pushes; dev is a JavaScript value
Dep(ecosystem, name, version, dev, filePath) ==
    [ecosystem |-> ecosystem, name |-> name, version |-> version,
     dev |-> dev, lockfile_source |-> filePath]

\* the state of a parser's try block when it ends: the dependencies pushed
\* so far, and whether it ended by an exception
Ok(deps) == [deps |-> deps, threw |-> FALSE]
Throw(deps) == [deps |-> deps, threw |-> TRUE]

\* ------------------------------------------------------------------------
\* The files of the working tree
\* ------------------------------------------------------------------------

\* a file that holds text; one whose text is the JSON serialisation of a
\* document; and a path that cannot be read
FileText(text) == [k |-> "text", text |-> text]
FileJson(doc) == [k |-> "json", doc |-> doc]
NoFile == [k |-> "none"]

V(version) == JObj(<<P(Str.version, JStr(version))>>)
VDev(version) == JObj(<<P(Str.version, JStr(version)), P(Str.dev, JBool(TRUE))>>)

\* the paths of the entries of LOCKFILES
Paths ==
    [npm3 |-> <<"p","3",".","j","s","o","n">>,
     npm1 |-> <<"p","1",".","j","s","o","n">>,
     npmNullPkg |-> <<"b","a","d",".","j","s","o","n">>,
     npmTruncated |-> <<"c","u","t",".","j","s","o","n">>,
     npmMissing |-> <<"g","o","n","e",".","j","s","o","n">>,
     npmAlias |-> <<"p","a",".","j","s","o","n">>,
     req |-> <<"r","e","q",".","t","x","t">>,
     reqDev |-> <<"r","e","q","-","d","e","v",".","t","x","t">>,
     poetry |-> <<"p","o","e","t","r","y",".","l","o","c","k">>,
     cargo |-> <<"C","a","r","g","o",".","l","o","c","k">>,
     goSum |-> <<"g","o",".","s","u","m">>,
     goMod |-> <<"g","o",".","s","u","m",".","d","/","g","o",".","m","o","d">>,
     goModColon |-> <<"c",":","/","g","o",".","m","o","d">>,
     gemfile |-> <<"G","e","m","f","i","l","e",".","l","o","c","k">>,
     composer |-> <<"c","o","m","p","o","s","e","r",".","l","o","c","k">>,
     composerNull |-> <<"b","a","d","/","c","o","m","p","o","s","e","r",".","l","o","c","k">>,
     nuget |-> <<"p","a","c","k","a","g","e","s",".","l","o","c","k",".","j","s","o","n">>,
     pom |-> <<"p","o","m",".","x","m","l">>,
     yarn |-> <<"y","a","r","n",".","l","o","c","k">>]

\* the files of the working tree
Files ==
    [
     \* lockfileVersion 3: the root, a runtime package, a dev package, a nested one
     npm3 |->
         FileJson(JObj(<<P(Str.packages, JObj(<<
             P(<<>>, V(<<"1",".","0",".","0">>)),
             P(<<"n","o","d","e","_","m","o","d","u","l","e","s","/","l","o","d","a","s","h">>, V(<<"4",".","1","7",".","2","1">>)),
             P(<<"n","o","d","e","_","m","o","d","u","l","e","s","/","j","e","s","t">>, VDev(<<"2","9",".","0",".","0">>)),
             P(<<"n","o","d","e","_","m","o","d","u","l","e","s","/","a","/","n","o","d","e","_","m","o","d","u","l","e","s","/","q","s">>, V(<<"6",".","0">>))>>))>>)),
     \* lockfileVersion 1: nested dependencies and devDependencies; jest 29.0.0 is
     \* a runtime dependency here
     npm1 |->
         FileJson(JObj(<<
             P(Str.dependencies, JObj(<<
                 P(<<"e","x","p","r","e","s","s">>, JObj(<<P(Str.version, JStr(<<"4",".","1","8",".","0">>)),
                                      P(Str.dependencies, JObj(<<P(<<"q","s">>, V(<<"6",".","0">>))>>))>>)),
                 P(<<"j","e","s","t">>, V(<<"2","9",".","0",".","0">>))>>)),
             P(Str.devDependencies, JObj(<<P(<<"m","o","c","h","a">>, V(<<"9",".","0">>))>>))>>)),
     \* a packages map whose second entry is null
     npmNullPkg |->
         FileJson(JObj(<<P(Str.packages, JObj(<<
             P(<<"n","o","d","e","_","m","o","d","u","l","e","s","/","o","k">>, V(<<"1",".","0">>)),
             P(<<"n","o","d","e","_","m","o","d","u","l","e","s","/","n","i","l">>, JNull),
             P(<<"n","o","d","e","_","m","o","d","u","l","e","s","/","l","a","t","e">>, V(<<"2",".","0">>))>>))>>)),
     \* a lockfile cut off in the middle
     npmTruncated |-> FileText(<<"{","\"","p","a","c","k","a","g","e","s","\"",":"," ","{">>),
     \* lockfileVersion 1: an alias, whose version names the aliased package; a
     \* package whose name ends as that version starts; an empty property name
     npmAlias |->
         FileJson(JObj(<<P(Str.dependencies, JObj(<<
             P(<<"x">>, V(<<"n","p","m",":","y","@","1">>)),
             P(<<"x",":","n","p","m">>, V(<<"y","@","1">>)),
             P(<<>>, V(<<"0",".","1">>))>>))>>)),
     \* pinned and ranged requirements, a comment and an include
     req |-> FileText(<<"f","l","a","s","k","=","=","2",".","0",".","0","\n","r","e","q","u","e","s","t","s",">","=","2",".","2","8",".","0","\n","#"," ","c","o","m","m","e","n","t","\n","-","r"," ","o","t","h","e","r",".","t","x","t","\n","p","y","t","e","s","t","=","=","7",".","0",".","0">>),
     \* extras, a version list, an environment marker, an inline comment, no
     \* version, a line whose third group starts with a comma, and a name
     \* with a dot
     reqDev |-> FileText(<<"B","l","a","c","k","[","d","]",">","=","2","2",".","1",",","<","2","3"," ",";"," ","p","y","t","h","o","n","_","v","e","r","s","i","o","n",">","'","3","'","\n","f","l","a","s","k","=","=","2",".","0",".","0"," "," ","#"," ","p","i","n","\n","t","o","x","\n","s","i","x"," ",",","<","2","\n","z","o","p","e",".","i","n","t","e","r","f","a","c","e","=","=","5",".","0","\n">>),
     \* a package without category, a dev package, a main package
     poetry |-> FileText(<<"[","[","p","a","c","k","a","g","e","]","]","\n","n","a","m","e"," ","="," ","\"","R","e","q","u","e","s","t","s","\"","\n","v","e","r","s","i","o","n"," ","="," ","\"","2",".","2","8",".","0","\"","\n","\n","[","[","p","a","c","k","a","g","e","]","]","\n","n","a","m","e"," ","="," ","\"","p","y","t","e","s","t","\"","\n","v","e","r","s","i","o","n"," ","="," ","\"","7",".","0",".","0","\"","\n","c","a","t","e","g","o","r","y"," ","="," ","\"","d","e","v","\"","\n","\n","[","[","p","a","c","k","a","g","e","]","]","\n","n","a","m","e"," ","="," ","\"","f","l","a","s","k","\"","\n","v","e","r","s","i","o","n"," ","="," ","\"","2",".","0",".","0","\"","\n","c","a","t","e","g","o","r","y"," ","="," ","\"","m","a","i","n","\"","\n">>),
     cargo |-> FileText(<<"[","[","p","a","c","k","a","g","e","]","]","\n","n","a","m","e"," ","="," ","\"","s","e","r","d","e","\"","\n","v","e","r","s","i","o","n"," ","="," ","\"","1",".","0",".","1","8","8","\"","\n","\n","[","[","p","a","c","k","a","g","e","]","]","\n","n","a","m","e"," ","="," ","\"","t","o","k","i","o","\"","\n","v","e","r","s","i","o","n"," ","="," ","\"","1",".","3","2",".","0","\"","\n">>),
     \* a module version on two lines, and one with its go.mod line only
     goSum |-> FileText(<<"g","i","t","h","u","b",".","c","o","m","/","p","k","g","/","e","r","r","o","r","s"," ","v","0",".","9",".","1"," ","h","1",":","a","b","\n","g","i","t","h","u","b",".","c","o","m","/","p","k","g","/","e","r","r","o","r","s"," ","v","0",".","9",".","1","/","g","o",".","m","o","d"," ","h","1",":","c","d","\n","g","o","l","a","n","g",".","o","r","g","/","x","/","s","y","s"," ","v","0",".","6",".","0","/","g","o",".","m","o","d"," ","h","1",":","e","f","\n">>),
     \* a require block with a comment, a single-line require, a replace block,
     \* an exclude line
     goMod |-> FileText(<<"m","o","d","u","l","e"," ","e","x","a","m","p","l","e",".","c","o","m","/","t","\n","\n","g","o"," ","1",".","2","1","\n","\n","r","e","q","u","i","r","e"," ","(","\n"," "," ","g","i","t","h","u","b",".","c","o","m","/","p","k","g","/","e","r","r","o","r","s"," ","v","0",".","9",".","1","\n"," "," ","g","o","l","a","n","g",".","o","r","g","/","x","/","n","e","t"," ","v","0",".","7",".","0"," ","/","/"," ","i","n","d","i","r","e","c","t","\n",")","\n","\n","r","e","q","u","i","r","e"," ","g","o","l","a","n","g",".","o","r","g","/","x","/","s","y","s"," ","v","0",".","6",".","0","\n","\n","r","e","p","l","a","c","e"," ","(","\n"," "," ","a",".","b","/","c"," ","v","1"," ","=",">"," ",".",".","/","c","\n",")","\n","\n","e","x","c","l","u","d","e"," ","a",".","b","/","d"," ","v","2",".","0",".","0","\n">>),
     goModColon |-> FileText(<<"r","e","q","u","i","r","e"," ","a",".","b","/","c"," ","v","1",".","0",".","0","\n">>),
     \* a specs section with a dependency line, a gem whose name starts with an
     \* upper-case letter, a gem after it, a blank line and the next sections
     gemfile |-> FileText(<<"G","E","M","\n"," "," ","r","e","m","o","t","e",":"," ","h","t","t","p","s",":","/","/","r","u","b","y","g","e","m","s",".","o","r","g","/","\n"," "," ","s","p","e","c","s",":","\n"," "," "," "," ","r","a","c","k"," ","(","2",".","2",".","7",")","\n"," "," "," "," "," "," ","r","a","k","e"," ","(",">","="," ","1",")","\n"," "," "," "," ","r","a","k","e"," ","(","1","3",".","0",".","6",","," ","<"," ","1","4",")","\n"," "," "," "," ","R","e","d","C","l","o","t","h"," ","(","4",".","3",".","2",")","\n"," "," "," "," ","z","e","i","t","w","e","r","k"," ","(","2",".","6",".","0",")","\n","\n","P","L","A","T","F","O","R","M","S","\n"," "," "," "," ","r","u","b","y"," ","(","1",")","\n">>),
     composer |->
         FileJson(JObj(<<
             P(Str.packages, JArr(<<JObj(<<P(Str.name, JStr(<<"l","a","r","a","v","e","l","/","f","r","a","m","e","w","o","r","k">>)),
                                         P(Str.version, JStr(<<"v","1","0",".","0",".","0">>))>>)>>)),
             P(Str.packages_dev, JArr(<<JObj(<<P(Str.name, JStr(<<"p","h","p","u","n","i","t","/","p","h","p","u","n","i","t">>)),
                                             P(Str.version, JStr(<<"v","1","0",".","1",".","0">>))>>)>>))>>)),
     \* a packages array whose second element is null
     composerNull |->
         FileJson(JObj(<<
             P(Str.packages, JArr(<<JObj(<<P(Str.name, JStr(<<"a","/","b">>)),
                                         P(Str.version, JStr(<<"1",".","0">>))>>),
                                  JNull>>))>>)),
     \* one target framework; a resolved version, a requested one, an empty name
     nuget |->
         FileJson(JObj(<<
             P(Str.dependencies, JObj(<<
                 P(<<"n","e","t","7",".","0">>, JObj(<<
                     P(<<"S","e","r","i","l","o","g">>, JObj(<<P(Str.resolved, JStr(<<"2",".","1","2",".","0">>))>>)),
                     P(<<"N","L","o","g">>, JObj(<<P(Str.requested, JStr(<<"[","5",".","0",","," ",")">>))>>)),
                     P(<<"B","a","r","e">>, JNull),
                     P(<<>>, JObj(<<P(Str.resolved, JStr(<<"1",".","0">>))>>))>>))>>))>>)),
     \* a managed coordinate that is also declared, a managed one that is not, a
     \* test dependency and a version that is a property
     pom |-> FileText(<<"<","p","r","o","j","e","c","t",">","<","d","e","p","e","n","d","e","n","c","y","M","a","n","a","g","e","m","e","n","t",">","<","d","e","p","e","n","d","e","n","c","i","e","s",">","<","d","e","p","e","n","d","e","n","c","y",">","<","g","r","o","u","p","I","d",">","g","<","/","g","r","o","u","p","I","d",">","<","a","r","t","i","f","a","c","t","I","d",">","a","<","/","a","r","t","i","f","a","c","t","I","d",">","<","v","e","r","s","i","o","n",">","9","<","/","v","e","r","s","i","o","n",">","<","/","d","e","p","e","n","d","e","n","c","y",">","<","d","e","p","e","n","d","e","n","c","y",">","<","g","r","o","u","p","I","d",">","g","<","/","g","r","o","u","p","I","d",">","<","a","r","t","i","f","a","c","t","I","d",">","b","o","m","<","/","a","r","t","i","f","a","c","t","I","d",">","<","v","e","r","s","i","o","n",">","1","<","/","v","e","r","s","i","o","n",">","<","/","d","e","p","e","n","d","e","n","c","y",">","<","/","d","e","p","e","n","d","e","n","c","i","e","s",">","<","/","d","e","p","e","n","d","e","n","c","y","M","a","n","a","g","e","m","e","n","t",">","<","d","e","p","e","n","d","e","n","c","i","e","s",">","<","d","e","p","e","n","d","e","n","c","y",">","<","g","r","o","u","p","I","d",">","g","<","/","g","r","o","u","p","I","d",">","<","a","r","t","i","f","a","c","t","I","d",">","a","<","/","a","r","t","i","f","a","c","t","I","d",">","<","v","e","r","s","i","o","n",">"," ","1",".","2"," ","<","/","v","e","r","s","i","o","n",">","<","/","d","e","p","e","n","d","e","n","c","y",">","<","d","e","p","e","n","d","e","n","c","y",">","<","g","r","o","u","p","I","d",">","j","u","n","i","t","<","/","g","r","o","u","p","I","d",">","<","a","r","t","i","f","a","c","t","I","d",">","j","u","n","i","t","<","/","a","r","t","i","f","a","c","t","I","d",">","<","v","e","r","s","i","o","n",">","4",".","1","3","<","/","v","e","r","s","i","o","n",">","<","s","c","o","p","e",">","t","e","s","t","<","/","s","c","o","p","e",">","<","/","d","e","p","e","n","d","e","n","c","y",">","<","d","e","p","e","n","d","e","n","c","y",">","<","g","r","o","u","p","I","d",">","g","<","/","g","r","o","u","p","I","d",">","<","a","r","t","i","f","a","c","t","I","d",">","p","<","/","a","r","t","i","f","a","c","t","I","d",">","<","v","e","r","s","i","o","n",">","$","{","v","}","<","/","v","e","r","s","i","o","n",">","<","/","d","e","p","e","n","d","e","n","c","y",">","<","/","d","e","p","e","n","d","e","n","c","i","e","s",">","<","/","p","r","o","j","e","c","t",">">>)
    ]

\* the working tree: every readable path with its file
FILES == <<
    [path |-> Paths.npm3, file |-> Files.npm3],
    [path |-> Paths.npm1, file |-> Files.npm1],
    [path |-> Paths.npmNullPkg, file |-> Files.npmNullPkg],
    [path |-> Paths.npmTruncated, file |-> Files.npmTruncated],
    [path |-> Paths.npmAlias, file |-> Files.npmAlias],
    [path |-> Paths.req, file |-> Files.req],
    [path |-> Paths.reqDev, file |-> Files.reqDev],
    [path |-> Paths.poetry, file |-> Files.poetry],
    [path |-> Paths.cargo, file |-> Files.cargo],
    [path |-> Paths.goSum, file |-> Files.goSum],
    [path |-> Paths.goMod, file |-> Files.goMod],
    [path |-> Paths.goModColon, file |-> Files.goModColon],
    [path |-> Paths.gemfile, file |-> Files.gemfile],
    [path |-> Paths.composer, file |-> Files.composer],
    [path |-> Paths.composerNull, file |-> Files.composerNull],
    [path |-> Paths.nuget, file |-> Files.nuget],
    [path |-> Paths.pom, file |-> Files.pom]>>

\* const name = value; ...rest: the rest with the name bound to the value
With(value, Rest(_)) == Rest(value)

\* fs.readFileSync(filePath, 'utf-8'): the file, or NoFile when it throws
FileAt(files, filePath) ==
    IF \E i \in 1..Len(files) : files[i].path = filePath
    THEN files[CHOOSE i \in 1..Len(files) : files[i].path = filePath].file
    ELSE NoFile

readFileSync(filePath) == FileAt(FILES, filePath)

\* JSON.parse throws a SyntaxError on text that is no JSON document
JSONparseThrows(file) == file.k # "json"
JSONparse(file) == file.doc

\* ------------------------------------------------------------------------
\* parseNpmLockfile
\* ------------------------------------------------------------------------

\* pkgPath.replace(/^node_modules\//, '')
StripLeadingNodeModules(pkgPath) ==
    IF startsWith(pkgPath, Str.node_modules)
    THEN SubSeq(pkgPath, Len(Str.node_modules) + 1, Len(pkgPath))
    ELSE pkgPath

\* Array.prototype.pop of a non-empty array
Last(parts) == parts[Len(parts)]

\* the name without split('node_modules/').pop(): only the leading
\* node_modules/ is removed
PackageNameOfTopLevel(pkgPath) == StripLeadingNodeModules(pkgPath)

\* pkgPath.replace(/^node_modules\//, '').split('node_modules/').pop()
PackageName(pkgPath) == Last(split(StripLeadingNodeModules(pkgPath), Str.node_modules))

\* pkg.dev || false
DevOrFalse(dev) == IF Truthy(dev) THEN dev ELSE JBool(FALSE)

\* the loop over Object.entries(lock.packages), from the entries left and the
\* dependencies pushed so far
RECURSIVE NpmPackagesLoop(_, _, _, _)
NpmPackagesLoop(entries, filePath, includeDev, deps) ==
    IF entries = <<>> THEN Ok(deps)
    ELSE With(PackageName(entries[1].k), LAMBDA name :
         LET pkgPath == entries[1].k
             pkg == entries[1].v
             rest == Tail(entries)
         IN  IF pkgPath = <<>> THEN NpmPackagesLoop(rest, filePath, includeDev, deps)
             ELSE IF name = <<>> THEN NpmPackagesLoop(rest, filePath, includeDev, deps)
             ELSE IF Nullish(pkg) THEN Throw(deps)
             ELSE IF ~Truthy(Get(pkg, Str.version))
                  THEN NpmPackagesLoop(rest, filePath, includeDev, deps)
             ELSE IF Truthy(Get(pkg, Str.dev)) /\ ~includeDev
                  THEN NpmPackagesLoop(rest, filePath, includeDev, deps)
             ELSE NpmPackagesLoop(rest, filePath, includeDev,
                      Append(deps, Dep(Str.npm, name, ToStr(Get(pkg, Str.version)),
                                       DevOrFalse(Get(pkg, Str.dev)), filePath))))

\* parseDepsV1(deps, isDev): the loop over Object.entries(deps), recursing into
\* the nested dependencies of an entry right after the entry is pushed
RECURSIVE parseDepsV1(_, _, _, _, _)
parseDepsV1(entries, isDev, filePath, includeDev, deps) ==
    IF entries = <<>> THEN Ok(deps)
    ELSE LET name == entries[1].k
             info == entries[1].v
             rest == Tail(entries)
         IN  IF Nullish(info) THEN Throw(deps)
             ELSE IF ~Truthy(Get(info, Str.version))
                  THEN parseDepsV1(rest, isDev, filePath, includeDev, deps)
             ELSE IF isDev /\ ~includeDev
                  THEN parseDepsV1(rest, isDev, filePath, includeDev, deps)
             ELSE With(Append(deps, Dep(Str.npm, name, ToStr(Get(info, Str.version)),
                                        JBool(isDev), filePath)), LAMBDA pushed :
                  With(IF Truthy(Get(info, Str.dependencies))
                       THEN parseDepsV1(Entries(Get(info, Str.dependencies)),
                                        isDev, filePath, includeDev, pushed)
                       ELSE Ok(pushed), LAMBDA nested :
                  IF nested.threw THEN nested
                  ELSE parseDepsV1(rest, isDev, filePath, includeDev, nested.deps)))

\* the try block of parseNpmLockfile
NpmTry(filePath, includeDev) ==
    With(readFileSync(filePath), LAMBDA file :
    IF file.k = "none" THEN Throw(<<>>)
    ELSE IF JSONparseThrows(file) THEN Throw(<<>>)
    ELSE With(JSONparse(file), LAMBDA lock :
         IF Nullish(lock) THEN Throw(<<>>)
         ELSE IF Truthy(Get(lock, Str.packages))
              THEN NpmPackagesLoop(Entries(Get(lock, Str.packages)),
                                   filePath, includeDev, <<>>)
         ELSE IF Truthy(Get(lock, Str.dependencies))
              THEN With(parseDepsV1(Entries(Get(lock, Str.dependencies)),
                                    FALSE, filePath, includeDev, <<>>), LAMBDA run :
                   IF run.threw THEN run
                   ELSE IF Truthy(Get(lock, Str.devDependencies))
                        THEN parseDepsV1(Entries(Get(lock, Str.devDependencies)),
                                         TRUE, filePath, includeDev, run.deps)
                        ELSE run)
         ELSE Ok(<<>>)))

\* a catch block that logs and throws the error again: the variant of
\* CatchAndReturn that C6 has to tell from it
CatchAndRethrow(run) == [deps |-> run.deps, error |-> run.threw, escaped |-> run.threw]

\* try { ... } catch (err) { console.error(...) } return dependencies: what a
\* parser returns, and whether an exception leaves it
\* error: console.error(`Error parsing ...`) was called
CatchAndReturn(run) == [deps |-> run.deps, error |-> run.threw, escaped |-> FALSE]

\* parseNpmLockfile without the test of INCLUDE_DEV
parseNpmLockfileKeepingDev(filePath, includeDev) == CatchAndReturn(NpmTry(filePath, TRUE))

parseNpmLockfile(filePath, includeDev) == CatchAndReturn(NpmTry(filePath, includeDev))

\* ------------------------------------------------------------------------
\* parseRequirements
\* ------------------------------------------------------------------------

\* [a-zA-Z0-9_-]
NameChars == Range(Lower) \cup Range(Upper) \cup Digits \cup {"_", "-"}

\* [=<>!~]
OperatorChars == {"=", "<", ">", "!", "~"}

\* the end of (?:\[[^\]]+\])? when it matches at position i, else i - 1
ExtrasEnd(s, i) ==
    LET close == IndexFrom(s, <<"]">>, i + 1)
    IN  IF i <= Len(s) /\ s[i] = "[" /\ close >= i + 2 THEN close ELSE i - 1

\* trimmed.match(/^([a-zA-Z0-9_-]+(?:\[[^\]]+\])?)\s*([=<>!~]+)?\s*([^\s;#]+)?/):
\* every quantifier is greedy and nothing after group 1 can fail, so the match
\* is the first greedy one.  g3 is the empty string when group 3 is undefined.
RequirementMatch(s) ==
    With(RunLen(s, 1, Positions(s, NameChars)), LAMBDA n1 :
    With(ExtrasEnd(s, n1 + 1), LAMBDA e1 :
    With(e1 + 1 + RunLen(s, e1 + 1, Positions(s, SpaceChars)), LAMBDA a2 :
    With(RunLen(s, a2, Positions(s, OperatorChars)), LAMBDA n2 :
    With(a2 + n2 + RunLen(s, a2 + n2, Positions(s, SpaceChars)), LAMBDA a3 :
    With(RunLen(s, a3, {i \in 1..Len(s) : s[i] \notin SpaceChars \cup {";", "#"}}),
         LAMBDA n3 :
        [matched |-> n1 >= 1,
         g1 |-> SubSeq(s, 1, e1),
         g2 |-> SubSeq(s, a2, a2 + n2 - 1),
         g3 |-> SubSeq(s, a3, a3 + n3 - 1)]))))))

\* match[1].replace(/\[.*\]$/, '')
RemoveExtras(g1) ==
    LET open == IndexFrom(g1, <<"[">>, 1)
    IN  IF open # 0 /\ Len(g1) > open /\ g1[Len(g1)] = "]"
        THEN SubSeq(g1, 1, open - 1)
        ELSE g1

\* version.replace(/[,;].*$/, '')
CutAtSeparator(version) ==
    LET at == Positions(version, {",", ";"})
    IN  IF at = {} THEN version
        ELSE SubSeq(version, 1, Least(at) - 1)

\* filePath.includes('dev') || filePath.includes('test')
PathLooksDev(filePath) == includes(filePath, Str.dev) \/ includes(filePath, Str.test)

\* the body of the loop over the lines of a requirements file
RequirementLine(line, filePath) ==
    With(trim(line), LAMBDA trimmed :
    With(RequirementMatch(trimmed), LAMBDA match :
    With(RemoveExtras(match.g1), LAMBDA name :
    With(trim(CutAtSeparator(IF match.g3 # <<>> THEN match.g3 ELSE Str.star)),
         LAMBDA version :
        IF trimmed = <<>> \/ startsWith(trimmed, <<"#">>) \/ startsWith(trimmed, <<"-">>)
        THEN <<>>
        ELSE IF ~match.matched THEN <<>>
        ELSE IF name = <<>> THEN <<>>
        ELSE <<Dep(Str.pypi, toLowerCase(name), version,
                   JBool(PathLooksDev(filePath)), filePath)>>))))

RECURSIVE RequirementLines(_, _)
RequirementLines(lines, filePath) ==
    IF lines = <<>> THEN <<>>
    ELSE RequirementLine(lines[1], filePath) \o RequirementLines(Tail(lines), filePath)

\* the try block of parseRequirements
RequirementsTry(filePath, includeDev) ==
    With(readFileSync(filePath), LAMBDA file :
    IF file.k = "none" THEN Throw(<<>>)
    ELSE Ok(RequirementLines(split(file.text, Str.newline), filePath)))

parseRequirements(filePath, includeDev) ==
    CatchAndReturn(RequirementsTry(filePath, includeDev))

\* ------------------------------------------------------------------------
\* parsePoetryLock and parseCargoLock
\* ------------------------------------------------------------------------

\* ^ under the m flag: the start of the text or the position after a line break
AtLineStart(s, i) == i = 1 \/ (i > 1 /\ s[i - 1] \in {"\n", "\r"})

\* block.match(/^key\s*=\s*"([^"]+)"/m) tried at position i: the capture
\* when it matches there
KeyValueAt(s, key, i) ==
    With(i + Len(key) + RunLen(s, i + Len(key), Positions(s, SpaceChars)), LAMBDA eq :
    With(eq + 1 + RunLen(s, eq + 1, Positions(s, SpaceChars)), LAMBDA q :
    With(RunLen(s, q + 1, {j \in 1..Len(s) : s[j] # "\""}), LAMBDA n :
        [matched |-> /\ AtLineStart(s, i)
                     /\ MatchAt(s, key, i)
                     /\ eq <= Len(s) /\ s[eq] = "="
                     /\ q <= Len(s) /\ s[q] = "\""
                     /\ n >= 1
                     /\ q + n + 1 <= Len(s),
         value |-> SubSeq(s, q + 1, q + n)])))

\* block.match(/^key\s*=\s*"([^"]+)"/m): the first position where it matches
KeyValueFrom(s, key, from) ==
    With({i \in from..Len(s) : KeyValueAt(s, key, i).matched}, LAMBDA hits :
    With(IF hits = {} THEN 0 ELSE Least(hits), LAMBDA first :
        IF first = 0 THEN [matched |-> FALSE, value |-> <<>>]
        ELSE [matched |-> TRUE, value |-> KeyValueAt(s, key, first).value]))

KeyValue(block, key) == KeyValueFrom(block, key, 1)

\* categoryMatch && categoryMatch[1] === 'dev'
PoetryIsDev(categoryMatch) ==
    IF ~categoryMatch.matched THEN JNull ELSE JBool(categoryMatch.value = Str.dev)

PoetryBlock(block, filePath, includeDev) ==
    With(KeyValue(block, Str.name), LAMBDA nameMatch :
    With(KeyValue(block, Str.version), LAMBDA versionMatch :
    With(PoetryIsDev(KeyValue(block, Str.category)), LAMBDA isDev :
        IF ~(nameMatch.matched /\ versionMatch.matched) THEN <<>>
        ELSE IF Truthy(isDev) /\ ~includeDev THEN <<>>
        ELSE <<Dep(Str.pypi, toLowerCase(nameMatch.value), versionMatch.value,
                   isDev, filePath)>>)))

RECURSIVE PoetryBlocks(_, _, _)
PoetryBlocks(blocks, filePath, includeDev) ==
    IF blocks = <<>> THEN <<>>
    ELSE PoetryBlock(blocks[1], filePath, includeDev)
            \o PoetryBlocks(Tail(blocks), filePath, includeDev)

\* the try block of parsePoetryLock
PoetryTry(filePath, includeDev) ==
    With(readFileSync(filePath), LAMBDA file :
    IF file.k = "none" THEN Throw(<<>>)
    ELSE Ok(PoetryBlocks(Tail(split(file.text, Str.package_header)),
                         filePath, includeDev)))

parsePoetryLock(filePath, includeDev) == CatchAndReturn(PoetryTry(filePath, includeDev))

CargoBlock(block, filePath) ==
    With(KeyValue(block, Str.name), LAMBDA nameMatch :
    With(KeyValue(block, Str.version), LAMBDA versionMatch :
        IF ~(nameMatch.matched /\ versionMatch.matched) THEN <<>>
        ELSE <<Dep(Str.cargo, nameMatch.value, versionMatch.value, JBool(FALSE), filePath)>>))

RECURSIVE CargoBlocks(_, _)
CargoBlocks(blocks, filePath) ==
    IF blocks = <<>> THEN <<>>
    ELSE CargoBlock(blocks[1], filePath) \o CargoBlocks(Tail(blocks), filePath)

\* the try block of parseCargoLock
CargoTry(filePath, includeDev) ==
    With(readFileSync(filePath), LAMBDA file :
    IF file.k = "none" THEN Throw(<<>>)
    ELSE Ok(CargoBlocks(Tail(split(file.text, Str.package_header)), filePath)))

parseCargoLock(filePath, includeDev) == CatchAndReturn(CargoTry(filePath, includeDev))

\* ------------------------------------------------------------------------
\* parseGoSum and parseGoMod
\* ------------------------------------------------------------------------

\* the version as it stands in the second field
KeepGoModSuffix(version) == version

\* if (version.endsWith('/go.mod')) version = version.replace('/go.mod', '')
StripGoModSuffix(version) ==
    IF endsWith(version, Str.go_mod_suffix)
    THEN replaceFirst(version, Str.go_mod_suffix)
    ELSE version

\* the body of the loop over the lines of a go.sum
GoSumLine(line, filePath) ==
    With(trim(line), LAMBDA trimmed :
    With(splitWs(trimmed), LAMBDA parts :
    With(IF Len(parts) < 2 THEN <<>> ELSE StripGoModSuffix(parts[2]), LAMBDA version :
        IF trimmed = <<>> THEN <<>>
        ELSE IF Len(parts) < 2 THEN <<>>
        ELSE IF parts[1] = <<>> \/ version = <<>> THEN <<>>
        ELSE <<Dep(Str.go, parts[1], version, JBool(FALSE), filePath)>>)))

RECURSIVE GoSumLines(_, _)
GoSumLines(lines, filePath) ==
    IF lines = <<>> THEN <<>>
    ELSE GoSumLine(lines[1], filePath) \o GoSumLines(Tail(lines), filePath)

\* the try block of parseGoSum
GoSumTry(filePath, includeDev) ==
    With(readFileSync(filePath), LAMBDA file :
    IF file.k = "none" THEN Throw(<<>>)
    ELSE Ok(GoSumLines(split(file.text, Str.newline), filePath)))

parseGoSum(filePath, includeDev) == CatchAndReturn(GoSumTry(filePath, includeDev))

\* trimmed.replace(/^require\s+/, '') of a line that starts with 'require '
StripRequire(trimmed) ==
    LET a == Len(Str.require_space)
        n == RunLen(trimmed, a, Positions(trimmed, SpaceChars))
    IN  SubSeq(trimmed, a + n, Len(trimmed))

\* the record of a candidate line of a go.mod, if it has one
GoModCandidate(candidate, filePath) ==
    With(trim(split(candidate, Str.slashes)[1]), LAMBDA cleaned :
    With(splitWs(cleaned), LAMBDA parts :
        IF candidate = <<>> THEN <<>>
        ELSE IF Len(parts) < 2 THEN <<>>
        ELSE IF parts[1] = <<>> \/ parts[2] = <<>> THEN <<>>
        ELSE <<Dep(Str.go, parts[1], parts[2], JBool(FALSE), filePath)>>))

\* the loop over the lines of a go.mod, with the flag inRequireBlock
RECURSIVE GoModLines(_, _, _)
GoModLines(lines, inRequireBlock, filePath) ==
    IF lines = <<>> THEN <<>>
    ELSE With(trim(lines[1]), LAMBDA trimmed :
         LET rest == Tail(lines)
         IN  IF trimmed = <<>> \/ startsWith(trimmed, Str.slashes)
             THEN GoModLines(rest, inRequireBlock, filePath)
             ELSE IF startsWith(trimmed, Str.require_open)
             THEN GoModLines(rest, TRUE, filePath)
             ELSE IF inRequireBlock /\ startsWith(trimmed, <<")">>)
             THEN GoModLines(rest, FALSE, filePath)
             ELSE IF inRequireBlock
             THEN GoModCandidate(trimmed, filePath)
                     \o GoModLines(rest, inRequireBlock, filePath)
             ELSE IF startsWith(trimmed, Str.require_space)
             THEN GoModCandidate(StripRequire(trimmed), filePath)
                     \o GoModLines(rest, inRequireBlock, filePath)
             ELSE GoModLines(rest, inRequireBlock, filePath))

\* the try block of parseGoMod with inRequireBlock true from the first line
GoModTryInBlock(filePath, includeDev) ==
    With(readFileSync(filePath), LAMBDA file :
    IF file.k = "none" THEN Throw(<<>>)
    ELSE Ok(GoModLines(split(file.text, Str.newline), TRUE, filePath)))

\* the try block of parseGoMod
GoModTry(filePath, includeDev) ==
    With(readFileSync(filePath), LAMBDA file :
    IF file.k = "none" THEN Throw(<<>>)
    ELSE Ok(GoModLines(split(file.text, Str.newline), FALSE, filePath)))

parseGoMod(filePath, includeDev) == CatchAndReturn(GoModTry(filePath, includeDev))

\* ------------------------------------------------------------------------
\* parseGemfileLock
\* ------------------------------------------------------------------------

\* [A-Za-z0-9_.-]
GemNameChars == Range(Lower) \cup Range(Upper) \cup Digits \cup {"_", ".", "-"}

\* line.match(/^\s{4}([A-Za-z0-9_.-]+)\s+\(([^)]+)\)/)
GemMatch(line) ==
    With(RunLen(line, 5, Positions(line, GemNameChars)), LAMBDA n1 :
    With(RunLen(line, 5 + n1, Positions(line, SpaceChars)), LAMBDA s2 :
    With(5 + n1 + s2, LAMBDA open :
    With(RunLen(line, open + 1, {i \in 1..Len(line) : line[i] # ")"}), LAMBDA n2 :
        [matched |-> /\ Len(line) >= 4
                     /\ \A i \in 1..4 : IsSpace(line[i])
                     /\ n1 >= 1
                     /\ s2 >= 1
                     /\ open <= Len(line) /\ line[open] = "("
                     /\ n2 >= 1
                     /\ open + n2 + 1 <= Len(line),
         g1 |-> SubSeq(line, 5, 4 + n1),
         g2 |-> SubSeq(line, open + 1, open + n2)]))))

\* the record of a line inside the specs section, if it has one
GemLine(line, filePath) ==
    With(GemMatch(line), LAMBDA match :
    With(trim(split(match.g2, Str.comma)[1]), LAMBDA version :
        IF ~match.matched THEN <<>>
        ELSE IF match.g1 = <<>> \/ version = <<>> THEN <<>>
        ELSE <<Dep(Str.rubygems, match.g1, version, JBool(FALSE), filePath)>>))

\* the loop over the lines of a Gemfile.lock, with the flag inSpecs
RECURSIVE GemLines(_, _, _)
GemLines(lines, inSpecs, filePath) ==
    IF lines = <<>> THEN <<>>
    ELSE With(trim(lines[1]), LAMBDA trimmed :
         LET line == lines[1]
             rest == Tail(lines)
         IN  IF trimmed = Str.specs THEN GemLines(rest, TRUE, filePath)
             ELSE IF inSpecs /\ trimmed = <<>> THEN GemLines(rest, inSpecs, filePath)
             ELSE IF inSpecs /\ trimmed[1] \in Range(Upper)
             THEN GemLines(rest, FALSE, filePath)
             ELSE IF ~inSpecs THEN GemLines(rest, inSpecs, filePath)
             ELSE GemLine(line, filePath) \o GemLines(rest, inSpecs, filePath))

\* the try block of parseGemfileLock
GemfileTry(filePath, includeDev) ==
    With(readFileSync(filePath), LAMBDA file :
    IF file.k = "none" THEN Throw(<<>>)
    ELSE Ok(GemLines(split(file.text, Str.newline), FALSE, filePath)))

parseGemfileLock(filePath, includeDev) == CatchAndReturn(GemfileTry(filePath, includeDev))

\* ------------------------------------------------------------------------
\* parseComposerLock
\* ------------------------------------------------------------------------

\* Array.isArray(v) ? v : []
ArrayOrEmpty(v) == IF v.t = "arr" THEN v.a ELSE <<>>

\* one of the two loops over an array of packages, from the elements left
\* and the dependencies pushed so far
RECURSIVE ComposerLoop(_, _, _, _)
ComposerLoop(pkgs, isDev, filePath, deps) ==
    IF pkgs = <<>> THEN Ok(deps)
    ELSE LET pkg == pkgs[1]
         IN  IF Nullish(pkg) THEN Throw(deps)
             ELSE IF ~Truthy(Get(pkg, Str.name)) \/ ~Truthy(Get(pkg, Str.version))
                  THEN ComposerLoop(Tail(pkgs), isDev, filePath, deps)
             ELSE ComposerLoop(Tail(pkgs), isDev, filePath,
                      Append(deps, Dep(Str.composer, ToStr(Get(pkg, Str.name)),
                                       ToStr(Get(pkg, Str.version)), JBool(isDev), filePath)))

\* the try block of parseComposerLock
ComposerTry(filePath, includeDev) ==
    With(readFileSync(filePath), LAMBDA file :
    IF file.k = "none" THEN Throw(<<>>)
    ELSE IF JSONparseThrows(file) THEN Throw(<<>>)
    ELSE With(JSONparse(file), LAMBDA lock :
         IF Nullish(lock) THEN Throw(<<>>)
         ELSE With(ComposerLoop(ArrayOrEmpty(Get(lock, Str.packages)),
                                FALSE, filePath, <<>>), LAMBDA run :
              IF run.threw THEN run
              ELSE IF includeDev
              THEN ComposerLoop(ArrayOrEmpty(Get(lock, Str.packages_dev)),
                                TRUE, filePath, run.deps)
              ELSE run)))

parseComposerLock(filePath, includeDev) ==
    CatchAndReturn(ComposerTry(filePath, includeDev))

\* ------------------------------------------------------------------------
\* parseNugetLock
\* ------------------------------------------------------------------------

\* !v || typeof v !== 'object'
NotAnObject(v) == ~Truthy(v) \/ v.t \notin {"obj", "arr"}

\* info.resolved || info.version || info.requested
NugetVersion(info) ==
    IF Truthy(Get(info, Str.resolved)) THEN Get(info, Str.resolved)
    ELSE IF Truthy(Get(info, Str.version)) THEN Get(info, Str.version)
    ELSE Get(info, Str.requested)

\* the loop over Object.entries(target)
RECURSIVE NugetTarget(_, _)
NugetTarget(entries, filePath) ==
    IF entries = <<>> THEN <<>>
    ELSE LET name == entries[1].k
             info == entries[1].v
         IN  IF NotAnObject(info) THEN NugetTarget(Tail(entries), filePath)
             ELSE With(NugetVersion(info), LAMBDA version :
                  IF ~Truthy(version) THEN NugetTarget(Tail(entries), filePath)
                  ELSE <<Dep(Str.nuget, name, ToStr(version), JBool(FALSE), filePath)>>
                          \o NugetTarget(Tail(entries), filePath))

\* the loop over Object.values(targets)
RECURSIVE NugetTargets(_, _)
NugetTargets(targets, filePath) ==
    IF targets = <<>> THEN <<>>
    ELSE IF NotAnObject(targets[1].v) THEN NugetTargets(Tail(targets), filePath)
    ELSE NugetTarget(Entries(targets[1].v), filePath)
            \o NugetTargets(Tail(targets), filePath)

\* the try block of parseNugetLock
NugetTry(filePath, includeDev) ==
    With(readFileSync(filePath), LAMBDA file :
    IF file.k = "none" THEN Throw(<<>>)
    ELSE IF JSONparseThrows(file) THEN Throw(<<>>)
    ELSE With(JSONparse(file), LAMBDA lock :
         IF Nullish(lock) THEN Throw(<<>>)
         ELSE IF ~Truthy(Get(lock, Str.dependencies)) THEN Ok(<<>>)
         ELSE Ok(NugetTargets(Entries(Get(lock, Str.dependencies)), filePath))))

parseNugetLock(filePath, includeDev) == CatchAndReturn(NugetTry(filePath, includeDev))

\* ------------------------------------------------------------------------
\* parseMavenPom
\* ------------------------------------------------------------------------

\* the content as it is read, with its dependencyManagement blocks
KeepManaged(content) == content

\* content.replace(/<dependencyManagement>[\s\S]*?<\/dependencyManagement>/g, '')
RECURSIVE RemoveManaged(_)
RemoveManaged(content) ==
    With(IndexFrom(content, Str.dm_open, 1), LAMBDA open :
    With(IF open = 0 THEN 0
         ELSE IndexFrom(content, Str.dm_close, open + Len(Str.dm_open)), LAMBDA close :
        IF open = 0 \/ close = 0 THEN content
        ELSE SubSeq(content, 1, open - 1)
                \o RemoveManaged(SubSeq(content, close + Len(Str.dm_close), Len(content)))))

\* content.match(/<dependency>[\s\S]*?<\/dependency>/g) || []
RECURSIVE DependencyBlocks(_)
DependencyBlocks(content) ==
    With(IndexFrom(content, Str.dep_open, 1), LAMBDA open :
    With(IF open = 0 THEN 0
         ELSE IndexFrom(content, Str.dep_close, open + Len(Str.dep_open)), LAMBDA close :
        IF open = 0 \/ close = 0 THEN <<>>
        ELSE <<SubSeq(content, open, close + Len(Str.dep_close) - 1)>>
                \o DependencyBlocks(SubSeq(content, close + Len(Str.dep_close), Len(content)))))

\* block.match(/<tag>([^<]+)<\/tag>/) tried from position i on
RECURSIVE ElementFrom(_, _, _)
ElementFrom(block, tag, i) ==
    With(<<"<">> \o tag \o <<">">>, LAMBDA open :
    With(<<"<", "/">> \o tag \o <<">">>, LAMBDA close :
    With(IndexFrom(block, open, i), LAMBDA at :
    With(RunLen(block, at + Len(open), {j \in 1..Len(block) : block[j] # "<"}), LAMBDA n :
        IF at = 0 THEN [matched |-> FALSE, value |-> <<>>]
        ELSE IF n >= 1 /\ MatchAt(block, close, at + Len(open) + n)
        THEN [matched |-> TRUE, value |-> SubSeq(block, at + Len(open), at + Len(open) + n - 1)]
        ELSE ElementFrom(block, tag, at + 1)))))

Element(block, tag) == ElementFrom(block, tag, 1)

\* the body of the loop over the dependency blocks of a pom.xml
MavenBlock(block, filePath, includeDev) ==
    With(Element(block, Str.groupId), LAMBDA groupMatch :
    With(Element(block, Str.artifactId), LAMBDA artifactMatch :
    With(Element(block, Str.version), LAMBDA versionMatch :
    With(Element(block, Str.scope), LAMBDA scopeMatch :
    With(trim(groupMatch.value), LAMBDA groupId :
    With(trim(artifactMatch.value), LAMBDA artifactId :
    With(trim(versionMatch.value), LAMBDA version :
    With(IF scopeMatch.matched THEN trim(scopeMatch.value) ELSE <<>>, LAMBDA scope :
    With(scope = Str.test, LAMBDA isDev :
        IF ~groupMatch.matched \/ ~artifactMatch.matched \/ ~versionMatch.matched THEN <<>>
        ELSE IF groupId = <<>> \/ artifactId = <<>> \/ version = <<>> THEN <<>>
        ELSE IF includes(version, Str.placeholder) THEN <<>>
        ELSE IF isDev /\ ~includeDev THEN <<>>
        ELSE <<Dep(Str.maven, groupId \o Str.colon \o artifactId, version,
                   JBool(isDev), filePath)>>)))))))))

RECURSIVE MavenBlocks(_, _, _)
MavenBlocks(blocks, filePath, includeDev) ==
    IF blocks = <<>> THEN <<>>
    ELSE MavenBlock(blocks[1], filePath, includeDev)
            \o MavenBlocks(Tail(blocks), filePath, includeDev)

\* the try block of parseMavenPom
MavenTry(filePath, includeDev) ==
    With(readFileSync(filePath), LAMBDA file :
    IF file.k = "none" THEN Throw(<<>>)
    ELSE Ok(MavenBlocks(DependencyBlocks(RemoveManaged(file.text)),
                        filePath, includeDev)))

parseMavenPom(filePath, includeDev) == CatchAndReturn(MavenTry(filePath, includeDev))

\* ========================================================================
\* main and writeInventory
\* ========================================================================

\* const [type, ...pathParts] = entry.split(':')
EntryType(entry) == split(entry, Str.colon)[1]

\* the path up to its first colon: pathParts[0]
EntryPathFirstPart(entry) == (split(entry, Str.colon) \o <<<<>>>>)[2]

\* pathParts.join(':')
EntryPath(entry) == join(Tail(split(entry, Str.colon)), Str.colon)

\* what one pass through the switch does: the parser called ("" when none
\* is), what it returned and logged, and whether an exception left it
Called(parser, result) ==
    [parser |-> parser, deps |-> result.deps, error |-> result.error,
     escaped |-> result.escaped]

\* a default case that throws: the variant of DefaultCase that C9 has to
\* tell from it
DefaultThrows == [parser |-> "", deps |-> <<>>, error |-> FALSE, escaped |-> TRUE]

\* default: console.warn(`Unknown lockfile type: ${type}`)
DefaultCase == [parser |-> "", deps |-> <<>>, error |-> FALSE, escaped |-> FALSE]

\* case 'go' with filePath.includes('go.sum') as its test
GoCaseByInclusion(filePath, includeDev) ==
    IF includes(filePath, Str.go_sum)
    THEN Called("parseGoSum", parseGoSum(filePath, includeDev))
    ELSE Called("parseGoMod", parseGoMod(filePath, includeDev))

\* case 'go'
GoCase(filePath, includeDev) ==
    IF endsWith(filePath, Str.go_sum)
    THEN Called("parseGoSum", parseGoSum(filePath, includeDev))
    ELSE Called("parseGoMod", parseGoMod(filePath, includeDev))

\* a switch with the cases npm, requirements and poetry only
SwitchOfThreeTypes(type, filePath, includeDev) ==
    CASE type = Str.npm ->
            Called("parseNpmLockfile", parseNpmLockfile(filePath, includeDev))
      [] type = Str.requirements ->
            Called("parseRequirements", parseRequirements(filePath, includeDev))
      [] type = Str.poetry ->
            Called("parsePoetryLock", parsePoetryLock(filePath, includeDev))
      [] OTHER -> DefaultCase

\* switch (type) { ... }
Switch(type, filePath, includeDev) ==
    CASE type = Str.npm ->
            Called("parseNpmLockfile", parseNpmLockfile(filePath, includeDev))
      [] type = Str.requirements ->
            Called("parseRequirements", parseRequirements(filePath, includeDev))
      [] type = Str.poetry ->
            Called("parsePoetryLock", parsePoetryLock(filePath, includeDev))
      [] type = Str.go -> GoCase(filePath, includeDev)
      [] type = Str.rubygems ->
            Called("parseGemfileLock", parseGemfileLock(filePath, includeDev))
      [] type = Str.cargo ->
            Called("parseCargoLock", parseCargoLock(filePath, includeDev))
      [] type = Str.composer ->
            Called("parseComposerLock", parseComposerLock(filePath, includeDev))
      [] type = Str.nuget ->
            Called("parseNugetLock", parseNugetLock(filePath, includeDev))
      [] type = Str.maven ->
            Called("parseMavenPom", parseMavenPom(filePath, includeDev))
      [] OTHER -> DefaultCase

\* the case labels of the switch
KnownTypes == {Str.npm, Str.requirements, Str.poetry, Str.go, Str.rubygems, Str.cargo,
               Str.composer, Str.nuget, Str.maven}

\* `${dep.ecosystem}:${dep.name}:${dep.version}`
DedupKey(dep) == dep.ecosystem \o Str.colon \o dep.name \o Str.colon \o dep.version

\* allDependencies.filter(...) with the Set seen
RECURSIVE FilterUnseen(_, _)
FilterUnseen(deps, seen) ==
    IF deps = <<>> THEN <<>>
    ELSE LET key == DedupKey(deps[1])
         IN  IF key \in seen
             THEN FilterUnseen(Tail(deps), seen)
             ELSE <<deps[1]>> \o FilterUnseen(Tail(deps), seen \cup {key})

Deduplicate(deps) == FilterUnseen(deps, {})

\* ...(dev !== undefined && { dev })
DevProperty(dep) == IF dep.dev.t # "undefined" THEN [dev |-> dep.dev] ELSE <<>>

\* ...(lockfile_source && { lockfile_source })
SourceProperty(dep) ==
    IF dep.lockfile_source # <<>>
    THEN [lockfile_source |-> dep.lockfile_source]
    ELSE <<>>

\* one element of inventory.dependencies
InventoryEntry(dep) ==
    [ecosystem |-> dep.ecosystem, name |-> dep.name, version |-> dep.version]
        @@ DevProperty(dep) @@ SourceProperty(dep)

\* the document at <WORKING_DIR>/.canary-inventory.json
InventoryDocument(deps) ==
    [exists |-> TRUE, dependencies |-> [i \in 1..Len(deps) |-> InventoryEntry(deps[i])]]

NoDocument == [exists |-> FALSE, dependencies |-> <<>>]

\* a writeInventory that returns before writing when there is no
\* dependency: the variant of writeInventory that C10 has to tell from it
writeInventoryUnlessEmpty(dependencies) ==
    IF dependencies = <<>>
    THEN [document |-> NoDocument, written |-> 0]
    ELSE [document |-> InventoryDocument(dependencies), written |-> 1]

\* writeInventory(dependencies): the document, and the number of calls of
\* fs.writeFileSync
writeInventory(dependencies) ==
    [document |-> InventoryDocument(dependencies), written |-> 1]

\* String(n) of a length
RECURSIVE NumToStr(_)
NumToStr(n) ==
    IF n < 10 THEN <<DigitChars[n + 1]>>
    ELSE NumToStr(n \div 10) \o <<DigitChars[(n % 10) + 1]>>

\* path.join of a relative or absolute directory without '..' and a file
\* name: the segments other than '' and '.', joined by '/'
pathJoin(dir, name) ==
    (IF startsWith(dir, Str.slash) THEN Str.slash ELSE <<>>)
        \o join(SelectSeq(split(dir, Str.slash) \o <<name>>,
                          LAMBDA segment : segment # <<>> /\ segment # Str.dot),
                Str.slash)

\* const WORKING_DIR = process.env.WORKING_DIR || '.'; const outputPath =
\* path.join(WORKING_DIR, '.canary-inventory.json')
OutputPath(workingDir) ==
    pathJoin(IF workingDir = <<>> THEN Str.dot ELSE workingDir, Str.inventory_file)

\* the output lines without inventory_path
OutputLinesCountOnly(outputFile, dependencies, path) ==
    IF outputFile = <<>> THEN <<>>
    ELSE <<Str.packages_count \o NumToStr(Len(dependencies)) \o Str.newline>>

\* if (outputFile) { fs.appendFileSync(outputFile, `packages_count=...\n`);
\* fs.appendFileSync(outputFile, `inventory_path=...\n`) }: what is appended
OutputLines(outputFile, dependencies, path) ==
    IF outputFile = <<>> THEN <<>>
    ELSE <<Str.packages_count \o NumToStr(Len(dependencies)) \o Str.newline,
           Str.inventory_path \o path \o Str.newline>>

\* the values of process.env.WORKING_DIR: unset, and a directory
WorkingDirValues == {<<>>, <<"/","w","/",".","/","r","/">>}

\* the values of process.env.GITHUB_OUTPUT: unset, and a file
GithubOutputValues == {<<>>, <<"o","u","t">>}

\* a call writeInventory(dependencies), in the environment it reads
CallWriteInventory(dependencies) ==
    \E workingDir \in WorkingDirValues, outputFile \in GithubOutputValues :
        \E path \in {OutputPath(workingDir)} :
            /\ inventory' = writeInventory(dependencies).document
            /\ writes' = writes + writeInventory(dependencies).written
            /\ outputPath' = path
            /\ GITHUB_OUTPUT' = outputFile
            /\ githubOutput' = githubOutput \o OutputLines(outputFile, dependencies, path)

Entry(type, filePath) == type \o Str.colon \o filePath

\* the entries LOCKFILES is made of: every file of the working tree under its
\* kind, a path that cannot be read, a kind the program does not know and an
\* entry without a path
EntryPool == {
    Entry(Str.npm, Paths.npm3),
    Entry(Str.npm, Paths.npm1),
    Entry(Str.npm, Paths.npmNullPkg),
    Entry(Str.npm, Paths.npmTruncated),
    Entry(Str.npm, Paths.npmMissing),
    Entry(Str.npm, Paths.npmAlias),
    Entry(Str.requirements, Paths.req),
    Entry(Str.requirements, Paths.reqDev),
    Entry(Str.poetry, Paths.poetry),
    Entry(Str.go, Paths.goSum),
    Entry(Str.go, Paths.goMod),
    Entry(Str.go, Paths.goModColon),
    Entry(Str.rubygems, Paths.gemfile),
    Entry(Str.cargo, Paths.cargo),
    Entry(Str.composer, Paths.composer),
    Entry(Str.composer, Paths.composerNull),
    Entry(Str.nuget, Paths.nuget),
    Entry(Str.maven, Paths.pom),
    Entry(Str.yarn, Paths.yarn),
    Str.npm }

\* the switch on the type and the path of every entry of EntryPool,
\* evaluated once
SwitchTable ==
    [call \in {<<EntryType(entry), EntryPath(entry)>> : entry \in EntryPool} |->
        [includeDev \in BOOLEAN |->
            IF call[2] = <<>> THEN DefaultCase
            ELSE Switch(call[1], call[2], includeDev)]]

\* const [type, ...pathParts] = entry.split(':') and pathParts.join(':') for
\* every entry of EntryPool, evaluated once
EntryTable ==
    [entry \in EntryPool |-> [type |-> EntryType(entry), filePath |-> EntryPath(entry)]]

\* the pass through the switch for the type and the path of an entry
Outcome(kind, path, includeDev) == SwitchTable[<<kind, path>>][includeDev]

\* the loop of main as a function: allDependencies after the entries of list
RECURSIVE Collect(_, _)
Collect(list, includeDev) ==
    IF list = <<>> THEN <<>>
    ELSE (IF EntryTable[list[1]].filePath = <<>> THEN <<>>
          ELSE Outcome(EntryTable[list[1]].type, EntryTable[list[1]].filePath,
                       includeDev).deps)
            \o Collect(Tail(list), includeDev)

\* main as a function: the dependencies of the document it writes
MainDependencies(lockfiles, includeDev) ==
    IF lockfiles = <<>>
    THEN writeInventory(<<>>).document.dependencies
    ELSE writeInventory(Deduplicate(Collect(split(lockfiles, Str.comma), includeDev)))
            .document.dependencies

EntryLists == UNION {[1..n -> EntryPool] : n \in 0..MaxEntries}

\* the values of process.env.LOCKFILES: the entries of a list joined by commas
LockfilesValues == {join(entries, Str.comma) : entries \in EntryLists}

\* LOCKFILES.split(',') for every value of LOCKFILES, evaluated once
LockfileListTable == [lockfiles \in LockfilesValues |-> split(lockfiles, Str.comma)]

\* submit.sh is not running
SubmitNotStarted ==
    /\ WORKER_URL = <<>>
    /\ AUTH_TOKEN = <<>>
    /\ FAIL_ON_ERROR = <<>>
    /\ inventoryFile = [exists |-> FALSE, json |-> FALSE, count |-> 0]
    /\ shPc = "idle"
    /\ PACKAGES_COUNT = <<>>
    /\ HTTP_CODE = <<>>
    /\ curlStatus = 0
    /\ responseFile = FALSE
    /\ stepOutput = <<>>
    /\ exitStatus = -1

Init ==
    /\ LOCKFILES \in LockfilesValues
    /\ INCLUDE_DEV \in BOOLEAN
    /\ pc = "main"
    /\ lockfileList = <<>>
    /\ idx = 0
    /\ entryType = <<>>
    /\ entryPath = <<>>
    /\ allDependencies = <<>>
    /\ unique = <<>>
    /\ inventory = NoDocument
    /\ writes = 0
    /\ calls = <<>>
    /\ GITHUB_OUTPUT = <<>>
    /\ outputPath = <<>>
    /\ githubOutput = <<>>
    /\ SubmitNotStarted

\* if (!LOCKFILES) { writeInventory([]); return; }
MainNoLockfiles ==
    /\ pc = "main"
    /\ LOCKFILES = <<>>
    /\ CallWriteInventory(<<>>)
    /\ pc' = "done"
    /\ UNCHANGED submitVars
    /\ UNCHANGED <<LOCKFILES, INCLUDE_DEV, lockfileList, idx, entryType, entryPath,
                   allDependencies, unique, calls>>

\* const allDependencies = []; const lockfileList = LOCKFILES.split(',')
MainSplit ==
    /\ pc = "main"
    /\ LOCKFILES # <<>>
    /\ lockfileList' = LockfileListTable[LOCKFILES]
    /\ idx' = 1
    /\ allDependencies' = <<>>
    /\ pc' = "loop"
    /\ UNCHANGED <<GITHUB_OUTPUT, outputPath, githubOutput>>
    /\ UNCHANGED submitVars
    /\ UNCHANGED <<LOCKFILES, INCLUDE_DEV, entryType, entryPath, unique, inventory,
                   writes, calls>>

\* for (const entry of lockfileList) { const [type, ...pathParts] =
\* entry.split(':'); const filePath = pathParts.join(':')
NextEntry ==
    /\ pc = "loop"
    /\ idx <= Len(lockfileList)
    /\ entryType' = EntryTable[lockfileList[idx]].type
    /\ entryPath' = EntryTable[lockfileList[idx]].filePath
    /\ pc' = "entry"
    /\ UNCHANGED <<GITHUB_OUTPUT, outputPath, githubOutput>>
    /\ UNCHANGED submitVars
    /\ UNCHANGED <<LOCKFILES, INCLUDE_DEV, lockfileList, idx, allDependencies,
                   unique, inventory, writes, calls>>

\* if (!filePath) continue;
SkipEntry ==
    /\ pc = "entry"
    /\ entryPath = <<>>
    /\ idx' = idx + 1
    /\ pc' = "loop"
    /\ UNCHANGED <<GITHUB_OUTPUT, outputPath, githubOutput>>
    /\ UNCHANGED submitVars
    /\ UNCHANGED <<LOCKFILES, INCLUDE_DEV, lockfileList, entryType, entryPath,
                   allDependencies, unique, inventory, writes, calls>>

\* the rest of an iteration whose entry has a path and the given type: the
\* pass through the switch and allDependencies.push(...deps); an exception
\* that leaves the parser ends the process
Dispatch(caseType) ==
    /\ pc = "entry"
    /\ entryPath # <<>>
    /\ entryType = caseType
    /\ \E outcome \in {Outcome(entryType, entryPath, INCLUDE_DEV)} :
        /\ calls' = IF outcome.parser = "" THEN calls
                    ELSE Append(calls, [entry |-> idx, parser |-> outcome.parser,
                                        filePath |-> entryPath,
                                        error |-> outcome.error,
                                        pushed |-> Len(outcome.deps)])
        /\ IF outcome.escaped
           THEN /\ pc' = "crashed"
                /\ UNCHANGED <<idx, allDependencies>>
           ELSE /\ allDependencies' = allDependencies \o outcome.deps
                /\ idx' = idx + 1
                /\ pc' = "loop"
    /\ UNCHANGED <<GITHUB_OUTPUT, outputPath, githubOutput>>
    /\ UNCHANGED submitVars
    /\ UNCHANGED <<LOCKFILES, INCLUDE_DEV, lockfileList, entryType, entryPath, unique,
                   inventory, writes>>

CaseNpm == Dispatch(Str.npm)

CaseRequirements == Dispatch(Str.requirements)

CasePoetry == Dispatch(Str.poetry)

CaseGo == Dispatch(Str.go)

CaseRubygems == Dispatch(Str.rubygems)

CaseCargo == Dispatch(Str.cargo)

CaseComposer == Dispatch(Str.composer)

CaseNuget == Dispatch(Str.nuget)

CaseMaven == Dispatch(Str.maven)

CaseDefault ==
    /\ entryType \notin KnownTypes
    /\ Dispatch(entryType)

\* const unique = allDependencies.filter(...)
Dedup ==
    /\ pc = "loop"
    /\ idx > Len(lockfileList)
    /\ unique' = Deduplicate(allDependencies)
    /\ pc' = "write"
    /\ UNCHANGED <<GITHUB_OUTPUT, outputPath, githubOutput>>
    /\ UNCHANGED submitVars
    /\ UNCHANGED <<LOCKFILES, INCLUDE_DEV, lockfileList, idx, entryType, entryPath,
                   allDependencies, inventory, writes, calls>>

\* writeInventory(unique)
WriteInventory ==
    /\ pc = "write"
    /\ CallWriteInventory(unique)
    /\ pc' = "done"
    /\ UNCHANGED submitVars
    /\ UNCHANGED <<LOCKFILES, INCLUDE_DEV, lockfileList, idx, entryType, entryPath,
                   allDependencies, unique, calls>>

Next ==
    \/ MainNoLockfiles
    \/ MainSplit
    \/ NextEntry
    \/ SkipEntry
    \/ CaseNpm
    \/ CaseRequirements
    \/ CasePoetry
    \/ CaseGo
    \/ CaseRubygems
    \/ CaseCargo
    \/ CaseComposer
    \/ CaseNuget
    \/ CaseMaven
    \/ CaseDefault
    \/ Dedup
    \/ WriteInventory

Spec == Init /\ [][Next]_vars

\* every run of main is taken to its end
FairSpec == Spec /\ WF_vars(Next)

\* ========================================================================
\* scripts/submit.sh
\* ========================================================================

\* the value of a decimal numeral, as test(1) reads the operands of -ge and -lt
RECURSIVE ToNumber(_)
ToNumber(numeral) ==
    IF numeral = <<>> THEN 0
    ELSE 10 * ToNumber(SubSeq(numeral, 1, Len(numeral) - 1))
           + (CHOOSE d \in 0..9 : DigitChars[d + 1] = numeral[Len(numeral)])

\* a test that takes 300 for a success
SuccessCodeUpTo300(code) == ToNumber(code) >= 200 /\ ToNumber(code) <= 300

\* [ "$HTTP_CODE" -ge 200 ] && [ "$HTTP_CODE" -lt 300 ]
SuccessCode(code) == ToNumber(code) >= 200 /\ ToNumber(code) < 300

\* what curl -s -w "%{http_code}" can end with: a response with its code and
\* exit status 0, or no response (the host is not resolved, the connection
\* is refused, the request times out), code 000 and a nonzero exit status
CurlOutcomes ==
    {[status |-> 0, code |-> c] :
        c \in {<<"1","9","9">>, <<"2","0","0">>, <<"2","0","4">>, <<"2","9","9">>,
               <<"3","0","0">>, <<"3","0","1">>, <<"4","0","4">>, <<"5","0","0">>}}
    \cup {[status |-> st, code |-> <<"0","0","0">>] : st \in {6, 7, 28}}

\* the inventory files at INVENTORY_PATH: none, one that is not JSON, and
\* documents with a number of dependencies
InventoryFiles ==
    {[exists |-> FALSE, json |-> FALSE, count |-> 0],
     [exists |-> TRUE, json |-> FALSE, count |-> 0]}
    \cup {[exists |-> TRUE, json |-> TRUE, count |-> n] : n \in {0, 12}}

\* the parse step has written an inventory; submit.sh starts in an
\* environment, with $GITHUB_OUTPUT designated by the runner
SubmitInit ==
    /\ LOCKFILES = <<>>
    /\ INCLUDE_DEV = TRUE
    /\ pc = "done"
    /\ lockfileList = <<>>
    /\ idx = 0
    /\ entryType = <<>>
    /\ entryPath = <<>>
    /\ allDependencies = <<>>
    /\ unique = <<>>
    /\ inventory = InventoryDocument(<<>>)
    /\ writes = 1
    /\ calls = <<>>
    /\ GITHUB_OUTPUT = <<>>
    /\ outputPath = OutputPath(<<>>)
    /\ githubOutput = <<>>
    /\ WORKER_URL \in {<<>>, <<"h","t","t","p","s",":","/","/","w">>}
    /\ AUTH_TOKEN \in {<<>>, <<"t","o","k">>}
    /\ FAIL_ON_ERROR \in {<<>>, Str.true, Str.false, <<"T","r","u","e">>}
    /\ inventoryFile \in InventoryFiles
    /\ shPc = "env"
    /\ PACKAGES_COUNT = <<>>
    /\ HTTP_CODE = <<>>
    /\ curlStatus = 0
    /\ responseFile = FALSE
    /\ stepOutput = <<>>
    /\ exitStatus = -1

\* WORKER_URL="${WORKER_URL:?...}" AUTH_TOKEN="${AUTH_TOKEN:?...}"
\* FAIL_ON_ERROR="${FAIL_ON_ERROR:-true}": an unset or empty required
\* variable ends the script with status 1
SubmitEnv ==
    /\ shPc = "env"
    /\ IF WORKER_URL = <<>> \/ AUTH_TOKEN = <<>>
       THEN /\ shPc' = "exited"
            /\ exitStatus' = 1
            /\ UNCHANGED FAIL_ON_ERROR
       ELSE /\ FAIL_ON_ERROR' = IF FAIL_ON_ERROR = <<>> THEN Str.true ELSE FAIL_ON_ERROR
            /\ shPc' = "inventory"
            /\ UNCHANGED exitStatus
    /\ UNCHANGED <<WORKER_URL, AUTH_TOKEN, inventoryFile, PACKAGES_COUNT, HTTP_CODE,
                   curlStatus, responseFile, stepOutput>>
    /\ UNCHANGED mainVars

\* if [ ! -f "$INVENTORY_PATH" ]; then ... exit 1; fi
SubmitInventory ==
    /\ shPc = "inventory"
    /\ IF ~inventoryFile.exists
       THEN shPc' = "exited" /\ exitStatus' = 1
       ELSE shPc' = "count" /\ UNCHANGED exitStatus
    /\ UNCHANGED <<WORKER_URL, AUTH_TOKEN, FAIL_ON_ERROR, inventoryFile, PACKAGES_COUNT,
                   HTTP_CODE, curlStatus, responseFile, stepOutput>>
    /\ UNCHANGED mainVars

\* PACKAGES_COUNT=$(node -e "console.log(JSON.parse(...).dependencies.length)"):
\* under set -e the script ends with the status of node when node fails
SubmitCount ==
    /\ shPc = "count"
    /\ IF ~inventoryFile.json
       THEN /\ shPc' = "exited"
            /\ exitStatus' = 1
            /\ UNCHANGED PACKAGES_COUNT
       ELSE /\ PACKAGES_COUNT' = NumToStr(inventoryFile.count)
            /\ shPc' = "post"
            /\ UNCHANGED exitStatus
    /\ UNCHANGED <<WORKER_URL, AUTH_TOKEN, FAIL_ON_ERROR, inventoryFile, HTTP_CODE,
                   curlStatus, responseFile, stepOutput>>
    /\ UNCHANGED mainVars

\* HTTP_CODE=$(curl -s -o response.txt -w "%{http_code}" -X POST ...): the
\* status of the assignment is the status of curl, and under set -e the
\* script ends with it when it is not 0
SubmitPost ==
    /\ shPc = "post"
    /\ \E outcome \in CurlOutcomes :
        /\ HTTP_CODE' = outcome.code
        /\ curlStatus' = outcome.status
        /\ responseFile' = (outcome.status = 0)
        /\ IF outcome.status # 0
           THEN shPc' = "exited" /\ exitStatus' = outcome.status
           ELSE shPc' = "outputs" /\ UNCHANGED exitStatus
    /\ UNCHANGED <<WORKER_URL, AUTH_TOKEN, FAIL_ON_ERROR, inventoryFile, PACKAGES_COUNT,
                   stepOutput>>
    /\ UNCHANGED mainVars

\* echo "packages_count=$PACKAGES_COUNT" >> "$GITHUB_OUTPUT" and the if on
\* HTTP_CODE, with exit 1 when FAIL_ON_ERROR is true
SubmitOutputs ==
    /\ shPc = "outputs"
    /\ IF SuccessCode(HTTP_CODE)
       THEN /\ stepOutput' = stepOutput \o <<Str.packages_count \o PACKAGES_COUNT,
                                              Str.status_success>>
            /\ shPc' = "cleanup"
            /\ UNCHANGED exitStatus
       ELSE /\ stepOutput' = stepOutput \o <<Str.packages_count \o PACKAGES_COUNT,
                                              Str.status_failed>>
            /\ IF FAIL_ON_ERROR = Str.true
               THEN shPc' = "exited" /\ exitStatus' = 1
               ELSE shPc' = "cleanup" /\ UNCHANGED exitStatus
    /\ UNCHANGED <<WORKER_URL, AUTH_TOKEN, FAIL_ON_ERROR, inventoryFile, PACKAGES_COUNT,
                   HTTP_CODE, curlStatus, responseFile>>
    /\ UNCHANGED mainVars

\* rm -f response.txt, and the end of the script
SubmitCleanup ==
    /\ shPc = "cleanup"
    /\ responseFile' = FALSE
    /\ shPc' = "exited"
    /\ exitStatus' = 0
    /\ UNCHANGED <<WORKER_URL, AUTH_TOKEN, FAIL_ON_ERROR, inventoryFile, PACKAGES_COUNT,
                   HTTP_CODE, curlStatus, stepOutput>>
    /\ UNCHANGED mainVars

SubmitNext ==
    \/ SubmitEnv
    \/ SubmitInventory
    \/ SubmitCount
    \/ SubmitPost
    \/ SubmitOutputs
    \/ SubmitCleanup

SubmitSpec == SubmitInit /\ [][SubmitNext]_vars

\* ========================================================================
\* Properties of a run of main
\* ========================================================================

\* C1: the dependencies of the written inventory are the concatenation of
\* the parser results in the order of the LOCKFILES entries, without every
\* record whose (ecosystem, name, version) occurred earlier: the survivors
\* keep their order, and each is the first record of its triple, written
\* with that record's dev and lockfile_source.
C1_FirstRecordOfEachTriple ==
    (pc = "done" /\ LOCKFILES # <<>>) =>
        LET Triple(r) == <<r.ecosystem, r.name, r.version>>
            all == Collect(split(LOCKFILES, Str.comma), INCLUDE_DEV)
            first == {i \in DOMAIN all :
                         \A j \in 1..(i - 1) : Triple(all[j]) # Triple(all[i])}
            Rank(i) == Cardinality({j \in first : j <= i})
        IN  /\ Len(inventory.dependencies) = Cardinality(first)
            /\ \A i \in first : inventory.dependencies[Rank(i)] = InventoryEntry(all[i])

\* C2: a record is dropped as a duplicate exactly when an earlier record has
\* the same ecosystem, name and version as strings, also when a name or a
\* version contains ':': every triple of the concatenated records is the
\* triple of exactly one dependency of the inventory.
C2_DroppedIffSameTriple ==
    (pc = "done" /\ LOCKFILES # <<>>) =>
        LET Triple(r) == <<r.ecosystem, r.name, r.version>>
        IN  \A i \in DOMAIN allDependencies :
                Cardinality({k \in DOMAIN inventory.dependencies :
                    Triple(inventory.dependencies[k]) = Triple(allDependencies[i])}) = 1

\* C3: when INCLUDE_DEV is 'false' the written inventory holds no record
\* with dev = true, whichever parser produced it and whatever the path.
C3_NoDevRecordWhenExcluded ==
    (pc = "done" /\ ~INCLUDE_DEV) =>
        \A k \in DOMAIN inventory.dependencies :
            LET e == inventory.dependencies[k]
            IN  ~("dev" \in DOMAIN e /\ e.dev = JBool(TRUE))

\* C4: for the same files, the inventory written with the flag false is the
\* inventory written with the flag true without its records with dev = true.
C4_FlagRemovesExactlyDevRecords ==
    (pc = "done" /\ ~INCLUDE_DEV) =>
        inventory.dependencies =
            SelectSeq(MainDependencies(LOCKFILES, TRUE),
                      LAMBDA e : ~("dev" \in DOMAIN e /\ e.dev = JBool(TRUE)))

\* C5: a file on which its parser hit an error contributes no record to the
\* inventory, also when the error came after records were extracted.
C5_FailedFileContributesNothing ==
    pc = "done" =>
        \A i \in DOMAIN calls :
            calls[i].error =>
                \A k \in DOMAIN inventory.dependencies :
                    LET e == inventory.dependencies[k]
                    IN  ~(/\ "lockfile_source" \in DOMAIN e
                          /\ e.lockfile_source = calls[i].filePath)

\* C6: a failure while parsing an entry never leaves the dispatcher loop:
\* the loop goes on to the next entry, every entry with a path and a known
\* kind is dispatched, the records of all entries are kept and the
\* inventory is written.
C6_FailureContained ==
    /\ pc # "crashed"
    /\ \A i \in DOMAIN calls : calls[i].error => calls[i].entry < idx
    /\ (pc = "done" /\ LOCKFILES # <<>>) =>
        /\ \A i \in DOMAIN lockfileList :
              (/\ EntryTable[lockfileList[i]].filePath # <<>>
               /\ EntryTable[lockfileList[i]].type \in KnownTypes)
                  => \E c \in DOMAIN calls : calls[c].entry = i
        /\ allDependencies = Collect(LockfileListTable[LOCKFILES], INCLUDE_DEV)
        /\ inventory = InventoryDocument(Deduplicate(allDependencies))
        /\ writes = 1

\* a run whose first entry failed and whose second entry gave the records
\* of the inventory
C6_LaterEntryAfterFailure ==
    /\ pc = "done"
    /\ Len(calls) = 2
    /\ calls[1].error /\ calls[1].pushed = 0
    /\ ~calls[2].error /\ calls[2].pushed > 0
    /\ Len(inventory.dependencies) = calls[2].pushed

\* C7: every record a parser emitted, and every dependency of the
\* inventory, has a non-empty ecosystem, name and version.
C7_NonEmptyFields ==
    /\ \A i \in DOMAIN allDependencies :
          /\ allDependencies[i].ecosystem # <<>>
          /\ allDependencies[i].name # <<>>
          /\ allDependencies[i].version # <<>>
    /\ \A k \in DOMAIN inventory.dependencies :
          /\ inventory.dependencies[k].ecosystem # <<>>
          /\ inventory.dependencies[k].name # <<>>
          /\ inventory.dependencies[k].version # <<>>

\* C8: in the written document the dev of a dependency is absent or a
\* boolean and its lockfile_source is absent or a path; neither is null.
C8_DevBooleanOrAbsent ==
    \A k \in DOMAIN inventory.dependencies :
        LET e == inventory.dependencies[k]
        IN  /\ "dev" \in DOMAIN e => e.dev.t = "bool"
            /\ "lockfile_source" \in DOMAIN e => Len(e.lockfile_source) > 0

\* C9: an entry of an unknown kind calls no parser, adds no record and does
\* not stop the run: the inventory is written, and it is the inventory of
\* LOCKFILES without the entries of unknown kind.
C9_UnknownKindSkipped ==
    /\ pc # "crashed"
    /\ \A i \in DOMAIN calls : EntryTable[lockfileList[calls[i].entry]].type \in KnownTypes
    /\ (pc = "done" /\ LOCKFILES # <<>>) =>
        /\ inventory.exists
        /\ inventory.dependencies =
               writeInventory(Deduplicate(Collect(
                   SelectSeq(lockfileList, LAMBDA e : EntryTable[e].type \in KnownTypes),
                   INCLUDE_DEV))).document.dependencies

\* a run whose first entry is of an unknown kind and whose second entry
\* gave the records of the inventory
C9_KnownEntryAfterUnknown ==
    /\ pc = "done"
    /\ Len(lockfileList) = 2
    /\ EntryType(lockfileList[1]) \notin KnownTypes
    /\ EntryPath(lockfileList[1]) # <<>>
    /\ Len(calls) = 1
    /\ calls[1].entry = 2 /\ calls[1].pushed > 0
    /\ Len(inventory.dependencies) = calls[1].pushed

\* C10: every run of main writes the inventory exactly once: it does write
\* it, never twice, and only when LOCKFILES is empty or after the last entry
\* was dispatched and the records were deduplicated; when there is no
\* record the document is written with an empty dependencies list.
C10_WrittenExactlyOnce ==
    /\ [](writes <= 1)
    /\ <>(pc = "done" /\ writes = 1 /\ inventory.exists)
    /\ [](pc = "done" /\ allDependencies = <<>>
            => inventory = [exists |-> TRUE, dependencies |-> <<>>])
    /\ [][writes' # writes =>
            /\ pc' = "done"
            /\ \/ pc = "main" /\ LOCKFILES = <<>>
               \/ /\ pc = "write"
                  /\ idx = Len(lockfileList) + 1
                  /\ unique = Deduplicate(allDependencies)
                  /\ inventory' = InventoryDocument(unique)]_vars

\* a run with entries that all gave no record, at its end
C10_EmptyInventoryWritten ==
    /\ pc = "done"
    /\ LOCKFILES # <<>>
    /\ calls # <<>>
    /\ allDependencies = <<>>
    /\ writes = 1
    /\ inventory = [exists |-> TRUE, dependencies |-> <<>>]

\* C11: when writeInventory found GITHUB_OUTPUT designated, it appended
\* exactly packages_count=<n> and inventory_path=<p>, n the number of
\* dependencies of the document it wrote (the deduplicated records) and p
\* the path it wrote the document to.
C11_OutputsMatchDocument ==
    (pc = "done" /\ GITHUB_OUTPUT # <<>>) =>
        /\ inventory.exists
        /\ githubOutput =
               <<Str.packages_count \o NumToStr(Len(inventory.dependencies)) \o Str.newline,
                 Str.inventory_path \o outputPath \o Str.newline>>

\* a run with an output file and a working directory whose inventory has
\* fewer dependencies than the parsers gave records
C11_CountOfDeduplicatedRecords ==
    /\ pc = "done"
    /\ GITHUB_OUTPUT # <<>>
    /\ Len(githubOutput) = 2
    /\ outputPath = <<"/","w","/","r","/">> \o Str.inventory_file
    /\ Len(inventory.dependencies) > 0
    /\ Len(allDependencies) > Len(inventory.dependencies)


C15_SplitAtFirstColonOnly ==
    LET FirstColon(e) ==
            IF \E k \in DOMAIN e : e[k] = ":"
            THEN CHOOSE k \in DOMAIN e : e[k] = ":" /\ \A j \in 1..(k - 1) : e[j] # ":"
            ELSE Len(e) + 1
        Before(e) == SubSeq(e, 1, FirstColon(e) - 1)
        After(e) == SubSeq(e, FirstColon(e) + 1, Len(e))
    IN  /\ pc = "entry" =>
              /\ entryType = Before(lockfileList[idx])
              /\ entryPath = After(lockfileList[idx])
        /\ \A c \in DOMAIN calls :
              calls[c].filePath = After(lockfileList[calls[c].entry])

\* a go.mod at a path with a colon was read and gave records
C15_PathWithColonParsed ==
    /\ pc = "done"
    /\ Len(calls) = 1
    /\ lockfileList[1] = <<"g","o",":","c",":","/","g","o",".","m","o","d">>
    /\ calls[1].filePath = <<"c",":","/","g","o",".","m","o","d">>
    /\ calls[1].parser = "parseGoMod"
    /\ ~calls[1].error
    /\ calls[1].pushed > 0
    /\ Len(inventory.dependencies) = calls[1].pushed

\* the packages map of Files.npm3 has one root entry, two entries without dev
\* and one entry with dev, and a run whose only entry is that file has ended
Npm3RunDone ==
    LET packages == Entries(Get(Files.npm3.doc, Str.packages))
        Count(Test(_)) == Cardinality({k \in DOMAIN packages : Test(packages[k])})
        IsRoot(e) == e.k = <<>>
        IsRuntime(e) == e.k # <<>> /\ ~Truthy(Get(e.v, Str.dev))
        IsDev(e) == e.k # <<>> /\ Truthy(Get(e.v, Str.dev))
    IN  /\ Count(IsRoot) = 1
        /\ Count(IsRuntime) = 2
        /\ Count(IsDev) = 1
        /\ pc = "done"
        /\ lockfileList = <<Entry(Str.npm, Paths.npm3)>>

\* C16: an npm v3 lockfile with 1 root, 2 runtime packages and 1 dev package
\* gives 3 records when dev is included and 2 records, the runtime packages,
\* when dev is excluded.
C16_ThreeWithDevTwoWithout ==
    Npm3RunDone =>
        /\ Len(calls) = 1
        /\ calls[1].parser = "parseNpmLockfile"
        /\ calls[1].pushed = IF INCLUDE_DEV THEN 3 ELSE 2
        /\ Len(inventory.dependencies) = IF INCLUDE_DEV THEN 3 ELSE 2

\* C16 as stated: the same lockfile gives 3 records when dev is included and
\* 1 record when dev is excluded.
C16_ThreeWithDevOneWithout ==
    Npm3RunDone =>
        Len(inventory.dependencies) = IF INCLUDE_DEV THEN 3 ELSE 1

\* the lockfile was parsed with dev excluded and its two runtime packages
\* are the inventory
C16_TwoRuntimeRecords ==
    /\ Npm3RunDone
    /\ ~INCLUDE_DEV
    /\ ~calls[1].error
    /\ Len(inventory.dependencies) = 2
    /\ \A k \in 1..2 : inventory.dependencies[k].ecosystem = Str.npm

\* C17: for a lockfile with a packages map that was parsed without error,
\* the records of the call are, in the order of the map, one per entry other
\* than the root that has a version (and, with dev excluded, has no dev
\* set): ecosystem npm, the name the part of the key after its last
\* node_modules/, the version of the entry, dev true exactly when the dev
\* of the entry is set. The root gives no record, and the number of records
\* is the number of those entries.
C17_OneRecordPerVersionedPackage ==
    LET RECURSIVE PushedBefore(_)
        PushedBefore(c) == IF c = 1 THEN 0 ELSE PushedBefore(c - 1) + calls[c - 1].pushed
        marker == <<"n","o","d","e","_","m","o","d","u","l","e","s","/">>
        Starts(key) == {k \in 1..(Len(key) - Len(marker) + 1) :
                            SubSeq(key, k, k + Len(marker) - 1) = marker}
        AfterLast(key) ==
            IF Starts(key) = {} THEN key
            ELSE LET last == CHOOSE k \in Starts(key) : \A j \in Starts(key) : j <= k
                 IN  SubSeq(key, last + Len(marker), Len(key))
        DevSet(e) == Get(e.v, Str.dev) = JBool(TRUE)
        Listed(e) == /\ e.k # <<>>
                     /\ Get(e.v, Str.version).t = "str"
                     /\ Get(e.v, Str.version).s # <<>>
                     /\ INCLUDE_DEV \/ ~DevSet(e)
        Record(e, path) == [ecosystem |-> Str.npm, name |-> AfterLast(e.k),
                            version |-> Get(e.v, Str.version).s,
                            dev |-> JBool(DevSet(e)), lockfile_source |-> path]
    IN  \A c \in DOMAIN calls :
            LET file == FileAt(FILES, calls[c].filePath)
            IN  (/\ calls[c].parser = "parseNpmLockfile"
                 /\ ~calls[c].error
                 /\ file.k = "json"
                 /\ Truthy(Get(file.doc, Str.packages))
                 /\ PushedBefore(c) + calls[c].pushed <= Len(allDependencies)) =>
                    LET listed == SelectSeq(Entries(Get(file.doc, Str.packages)), Listed)
                    IN  /\ calls[c].pushed = Len(listed)
                        /\ \A k \in DOMAIN listed :
                              allDependencies[PushedBefore(c) + k] =
                                  Record(listed[k], calls[c].filePath)

\* a packages map with a nested package and a dev package was parsed with
\* dev included: lodash, jest with dev true, and qs from under a/node_modules
C17_NestedAndDevPackages ==
    /\ pc = "done"
    /\ INCLUDE_DEV
    /\ Len(calls) = 1
    /\ calls[1].parser = "parseNpmLockfile"
    /\ ~calls[1].error
    /\ calls[1].pushed = 3
    /\ allDependencies[1].name = <<"l","o","d","a","s","h">>
    /\ allDependencies[2].name = <<"j","e","s","t">>
    /\ allDependencies[2].dev = JBool(TRUE)
    /\ allDependencies[3].name = <<"q","s">>
    /\ allDependencies[3].dev = JBool(FALSE)

\* C18: the records of a requirements file are, in the order of its lines,
\* one per line that is not blank, not a comment and not '-'-prefixed:
\* ecosystem pypi, the name of the line in lower case without its extras,
\* and as version the version that follows the operator, up to the first
\* ',' or ';' or space or '#', or '*' when the line gives no version.
C18_OneRecordPerRequirementLine ==
    LET RECURSIVE PushedBefore(_)
        PushedBefore(c) == IF c = 1 THEN 0 ELSE PushedBefore(c - 1) + calls[c - 1].pushed
        \* the length of the longest prefix of s without a character of stops
        Until(s, stops) ==
            IF \E k \in DOMAIN s : s[k] \in stops
            THEN (CHOOSE k \in DOMAIN s : s[k] \in stops /\ \A j \in 1..(k - 1) : s[j] \notin stops) - 1
            ELSE Len(s)
        operators == {"=", "<", ">", "!", "~"}
        blanks == {" ", "\t"}
        NameOf(line) == SubSeq(line, 1, Until(line, operators \cup blanks \cup {"[", ";", ",", "#"}))
        \* the line from its first operator character on
        FromOperator(line) == SubSeq(line, Until(line, operators \cup {";", "#"}) + 1, Len(line))
        \* s without its leading characters of skipped
        Without(s, skipped) ==
            IF \E k \in DOMAIN s : s[k] \notin skipped
            THEN SubSeq(s, CHOOSE k \in DOMAIN s : s[k] \notin skipped /\ \A j \in 1..(k - 1) : s[j] \in skipped, Len(s))
            ELSE <<>>
        VersionOf(line) ==
            LET tail == FromOperator(line)
                given == IF tail # <<>> /\ tail[1] \in operators
                         THEN Without(tail, operators \cup blanks)
                         ELSE <<>>
                version == SubSeq(given, 1, Until(given, blanks \cup {",", ";", "#"}))
            IN  IF version = <<>> THEN <<"*">> ELSE version
        Counts(line) == /\ trim(line) # <<>>
                        /\ trim(line)[1] \notin {"#", "-"}
    IN  \A c \in DOMAIN calls :
            LET file == FileAt(FILES, calls[c].filePath)
            IN  (/\ calls[c].parser = "parseRequirements"
                 /\ ~calls[c].error
                 /\ PushedBefore(c) + calls[c].pushed <= Len(allDependencies)) =>
                    LET lines == SelectSeq(split(file.text, Str.newline), Counts)
                    IN  /\ calls[c].pushed = Len(lines)
                        /\ \A k \in DOMAIN lines :
                              LET dep == allDependencies[PushedBefore(c) + k]
                              IN  /\ dep.ecosystem = Str.pypi
                                  /\ dep.name = toLowerCase(NameOf(trim(lines[k])))
                                  /\ dep.version = VersionOf(trim(lines[k]))

\* the dependency blocks of Files.pom: where the block starts, whether it
\* lies between a <dependencyManagement> and the </dependencyManagement> that
\* follows it, its name, its version, and whether its scope is test
PomDeclarations ==
    LET text == Files.pom.text
        closes == {o \in DOMAIN text : MatchAt(text, Str.dm_close, o)}
    IN  {With(SubSeq(text, p, IndexFrom(text, Str.dep_close, p) + Len(Str.dep_close) - 1),
              LAMBDA block :
             [at |-> p,
              managed |-> \E o \in 1..p :
                              /\ MatchAt(text, Str.dm_open, o)
                              /\ \E z \in closes : z > p
                              /\ \A z \in closes : z > o => z > p,
              name |-> trim(Element(block, Str.groupId).value) \o <<":">>
                           \o trim(Element(block, Str.artifactId).value),
              version |-> trim(Element(block, Str.version).value),
              test |-> trim(Element(block, Str.scope).value) = Str.test])
         : p \in {q \in DOMAIN text : MatchAt(text, Str.dep_open, q)}}

\* C19: no record of a pom.xml comes from a dependency block inside a
\* dependencyManagement block: for the group and artifact of every such
\* block, the records of the call are those of the declarations outside the
\* dependencyManagement blocks with their versions, one when it is declared
\* outside once and none when it is declared only inside.
C19_ManagedDependenciesYieldNothing ==
    LET RECURSIVE PushedBefore(_)
        PushedBefore(c) == IF c = 1 THEN 0 ELSE PushedBefore(c - 1) + calls[c - 1].pushed
    IN  \A c \in DOMAIN calls :
            (/\ calls[c].parser = "parseMavenPom"
             /\ calls[c].filePath = Paths.pom
             /\ ~calls[c].error
             /\ PushedBefore(c) + calls[c].pushed <= Len(allDependencies)) =>
                \A m \in {d \in PomDeclarations : d.managed} :
                    LET declared == {d \in PomDeclarations :
                                        /\ ~d.managed
                                        /\ d.name = m.name
                                        /\ d.version # <<>>
                                        /\ ~includes(d.version, Str.placeholder)
                                        /\ (INCLUDE_DEV \/ ~d.test)}
                        found == {k \in 1..calls[c].pushed :
                                     allDependencies[PushedBefore(c) + k].name = m.name}
                    IN  /\ Cardinality(found) = Cardinality(declared)
                        /\ \A k \in found : \E d \in declared :
                              allDependencies[PushedBefore(c) + k].version = d.version

\* a pom.xml that manages g:a at version 9 and g:bom, and declares g:a at
\* version 1.2, was parsed: g:a 1.2 is its only record for g:a and it has
\* none for g:bom
C19_ManagedAndDeclaredCoordinate ==
    /\ pc = "done"
    /\ lockfileList = <<Entry(Str.maven, Paths.pom)>>
    /\ Len(calls) = 1
    /\ ~calls[1].error
    /\ calls[1].pushed >= 1
    /\ allDependencies[1].name = <<"g",":","a">>
    /\ allDependencies[1].version = <<"1",".","2">>
    /\ \A k \in 2..Len(allDependencies) :
           allDependencies[k].name \notin {<<"g",":","a">>, <<"g",":","b","o","m">>}
    /\ includes(FileAt(FILES, Paths.pom).text, Str.dm_open)

\* C20: the records of a Gemfile.lock are, in the order of its lines, one
\* per line of the form `name (version[, ...])` indented by exactly four
\* spaces that lies inside a specs section, with that name and the first
\* version listed, whatever the name; a specs section runs from its `specs:`
\* line to the next section header, a line that starts with an upper-case
\* letter and follows a blank line.
C20_OneRecordPerSpecsLine ==
    LET RECURSIVE PushedBefore(_)
        PushedBefore(c) == IF c = 1 THEN 0 ELSE PushedBefore(c - 1) + calls[c - 1].pushed
        upper == {"A","B","C","D","E","F","G","H","I","J","K","L","M",
                  "N","O","P","Q","R","S","T","U","V","W","X","Y","Z"}
    IN  \A c \in DOMAIN calls :
            (/\ calls[c].parser = "parseGemfileLock"
             /\ ~calls[c].error
             /\ PushedBefore(c) + calls[c].pushed <= Len(allDependencies)) =>
                LET lines == split(FileAt(FILES, calls[c].filePath).text, Str.newline)
                    Header(k) == /\ k > 1
                                 /\ trim(lines[k - 1]) = <<>>
                                 /\ trim(lines[k]) # <<>>
                                 /\ trim(lines[k])[1] \in upper
                    InSpecs(k) == \E s \in 1..(k - 1) :
                                      /\ trim(lines[s]) = Str.specs
                                      /\ \A h \in (s + 1)..k : ~Header(h)
                    listed == SelectSeq([k \in DOMAIN lines |-> k],
                                        LAMBDA k : InSpecs(k) /\ GemMatch(lines[k]).matched)
                IN  /\ calls[c].pushed = Len(listed)
                    /\ \A n \in DOMAIN listed :
                          LET dep == allDependencies[PushedBefore(c) + n]
                              line == lines[listed[n]]
                          IN  /\ dep.ecosystem = Str.rubygems
                              /\ dep.name = GemMatch(line).g1
                              /\ dep.version = trim(split(GemMatch(line).g2, Str.comma)[1])

\* the requirements of the go.mod files, read off their lines: the first two
\* fields of every line between a line `require (` and the next line `)`,
\* and the two fields after `require` of every line `require module version`
\* outside such a block, each without its // comment
GoModRequirements ==
    [path \in {Paths.goMod, Paths.goModColon} |->
        LET lines == split(FileAt(FILES, path).text, Str.newline)
            Opens(k) == startsWith(trim(lines[k]), Str.require_open)
            InBlock(k) == \E s \in 1..(k - 1) :
                              /\ Opens(s)
                              /\ \A j \in (s + 1)..k : ~startsWith(trim(lines[j]), <<")">>)
            Fields(k) == splitWs(trim(split(trim(lines[k]), Str.slashes)[1]))
            InBlockLine(k) == InBlock(k) /\ ~Opens(k) /\ Len(Fields(k)) >= 2
            SingleLine(k) == /\ ~InBlock(k) /\ ~Opens(k)
                             /\ Len(Fields(k)) >= 3
                             /\ Fields(k)[1] = <<"r","e","q","u","i","r","e">>
            listed == SelectSeq([k \in DOMAIN lines |-> k],
                                LAMBDA k : InBlockLine(k) \/ SingleLine(k))
        IN  [n \in DOMAIN listed |->
                IF InBlockLine(listed[n])
                THEN [name |-> Fields(listed[n])[1], version |-> Fields(listed[n])[2]]
                ELSE [name |-> Fields(listed[n])[2], version |-> Fields(listed[n])[3]]]]

\* C21: the records of a go.mod are, in the order of its lines, those of the
\* lines inside a `require ( ... )` block and of the single-line `require
\* module version` statements, and no others: module, go, replace and
\* exclude lines and the lines of another block give none, the block ends at
\* its `)`, and no name or version holds a part of a // comment.
C21_OnlyRequireLinesYieldRecords ==
    LET RECURSIVE PushedBefore(_)
        PushedBefore(c) == IF c = 1 THEN 0 ELSE PushedBefore(c - 1) + calls[c - 1].pushed
    IN  \A c \in DOMAIN calls :
            (/\ calls[c].parser = "parseGoMod"
             /\ ~calls[c].error
             /\ PushedBefore(c) + calls[c].pushed <= Len(allDependencies)) =>
                LET required == GoModRequirements[calls[c].filePath]
                IN  /\ calls[c].pushed = Len(required)
                    /\ \A n \in DOMAIN required :
                          LET dep == allDependencies[PushedBefore(c) + n]
                          IN  /\ dep.ecosystem = Str.go
                              /\ dep.name = required[n].name
                              /\ dep.version = required[n].version
                              /\ ~includes(dep.name, Str.slashes)
                              /\ ~includes(dep.version, Str.slashes)
                              /\ dep.name \notin {Str.go, <<"m","o","d","u","l","e">>,
                                                   <<"r","e","p","l","a","c","e">>,
                                                   <<"e","x","c","l","u","d","e">>,
                                                   <<"r","e","q","u","i","r","e">>}

\* a go.mod with a module line, a go line, a require block with a comment, a
\* single-line require, a replace block and an exclude line was parsed: its
\* records are the two of the block and the one of the single line
C21_BlockAndSingleLineRequire ==
    /\ pc = "done"
    /\ lockfileList = <<Entry(Str.go, Paths.goMod)>>
    /\ Len(calls) = 1
    /\ calls[1].parser = "parseGoMod"
    /\ ~calls[1].error
    /\ calls[1].pushed = 3
    /\ allDependencies[2].name = <<"g","o","l","a","n","g",".","o","r","g","/","x","/","n","e","t">>
    /\ allDependencies[2].version = <<"v","0",".","7",".","0">>
    /\ allDependencies[3].name = <<"g","o","l","a","n","g",".","o","r","g","/","x","/","s","y","s">>
    /\ includes(FileAt(FILES, Paths.goMod).text, <<"e","x","c","l","u","d","e"," ">>)
    /\ includes(FileAt(FILES, Paths.goMod).text, <<"r","e","p","l","a","c","e"," ","(">>)

\* C22: parseGoSum and parseGoMod are called for the entries of type go
\* only; for such an entry parseGoSum is called exactly when the last six
\* characters of the path are `go.sum` and parseGoMod otherwise, on that
\* path, never both: an entry has at most one call, and at the end of the
\* run every entry of type go with a path has one.
C22_GoSumIffPathEndsWithGoSum ==
    LET IsGo(i) == EntryTable[lockfileList[i]].type = Str.go
        PathOf(i) == EntryTable[lockfileList[i]].filePath
        EndsWithGoSum(path) ==
            /\ Len(path) >= 6
            /\ <<path[Len(path) - 5], path[Len(path) - 4], path[Len(path) - 3],
                  path[Len(path) - 2], path[Len(path) - 1], path[Len(path)]>>
                    = <<"g","o",".","s","u","m">>
    IN  /\ \A c \in DOMAIN calls :
              /\ calls[c].parser \in {"parseGoSum", "parseGoMod"} <=> IsGo(calls[c].entry)
              /\ IsGo(calls[c].entry) =>
                    /\ calls[c].filePath = PathOf(calls[c].entry)
                    /\ calls[c].parser = "parseGoSum" <=> EndsWithGoSum(calls[c].filePath)
                    /\ calls[c].parser = "parseGoMod" <=> ~EndsWithGoSum(calls[c].filePath)
              /\ \A d \in DOMAIN calls : calls[d].entry = calls[c].entry => d = c
        /\ pc = "done" =>
              \A i \in DOMAIN lockfileList :
                  (IsGo(i) /\ PathOf(i) # <<>>) => \E c \in DOMAIN calls : calls[c].entry = i

\* a run over a go.sum and over a go.mod whose path holds go.sum before its
\* end: parseGoSum read the first and parseGoMod the second
C22_GoSumThenGoMod ==
    /\ pc = "done"
    /\ lockfileList = <<Entry(Str.go, Paths.goSum), Entry(Str.go, Paths.goMod)>>
    /\ Len(calls) = 2
    /\ calls[1].parser = "parseGoSum" /\ calls[1].filePath = Paths.goSum
    /\ calls[1].pushed > 0
    /\ calls[2].parser = "parseGoMod" /\ calls[2].filePath = Paths.goMod
    /\ calls[2].pushed > 0
    /\ includes(Paths.goMod, Str.go_sum)

\* the lines of Files.goSum with two fields or more: the module, and the
\* version, which is the second field without its last seven characters
\* when these are `/go.mod`
GoSumModules ==
    LET lines == SelectSeq(split(Files.goSum.text, Str.newline),
                           LAMBDA line : Len(splitWs(trim(line))) >= 2)
        suffix == <<"/","g","o",".","m","o","d">>
        Version(field) ==
            IF Len(field) >= 7 /\ SubSeq(field, Len(field) - 6, Len(field)) = suffix
            THEN SubSeq(field, 1, Len(field) - 7)
            ELSE field
    IN  [n \in DOMAIN lines |->
            [name |-> splitWs(trim(lines[n]))[1],
             version |-> Version(splitWs(trim(lines[n]))[2]),
             suffixed |-> Version(splitWs(trim(lines[n]))[2]) # splitWs(trim(lines[n]))[2]]]

\* C23: every line of a go.sum gives the record (go, module, version) with
\* the version free of `/go.mod`, so the line `module version hash` and the
\* line `module version/go.mod hash` give the same triple, and the written
\* inventory has exactly one record for each module version of the file,
\* none with a version that ends with `/go.mod`.
C23_OneRecordPerModuleVersion ==
    LET RECURSIVE PushedBefore(_)
        PushedBefore(c) == IF c = 1 THEN 0 ELSE PushedBefore(c - 1) + calls[c - 1].pushed
    IN  \A c \in DOMAIN calls :
            (/\ calls[c].parser = "parseGoSum"
             /\ calls[c].filePath = Paths.goSum
             /\ ~calls[c].error
             /\ PushedBefore(c) + calls[c].pushed <= Len(allDependencies)) =>
                /\ calls[c].pushed = Len(GoSumModules)
                /\ \A n \in DOMAIN GoSumModules :
                      LET dep == allDependencies[PushedBefore(c) + n]
                      IN  /\ dep.ecosystem = Str.go
                          /\ dep.name = GoSumModules[n].name
                          /\ dep.version = GoSumModules[n].version
                /\ pc = "done" =>
                      /\ \A n \in DOMAIN GoSumModules :
                            Cardinality({k \in DOMAIN inventory.dependencies :
                                /\ inventory.dependencies[k].ecosystem = Str.go
                                /\ inventory.dependencies[k].name = GoSumModules[n].name
                                /\ inventory.dependencies[k].version = GoSumModules[n].version})
                                = 1
                      /\ \A k \in DOMAIN inventory.dependencies :
                            inventory.dependencies[k].lockfile_source = Paths.goSum
                                => ~endsWith(inventory.dependencies[k].version,
                                             Str.go_mod_suffix)

\* a go.sum that lists github.com/pkg/errors v0.9.1 on a line with and on a
\* line without /go.mod was the only file of a run: three records were
\* pushed, two with the same triple, and the inventory has that version once
C23_TwoLinesOneRecord ==
    /\ pc = "done"
    /\ lockfileList = <<Entry(Str.go, Paths.goSum)>>
    /\ Len(calls) = 1 /\ ~calls[1].error
    /\ calls[1].pushed = 3
    /\ allDependencies[1].name = allDependencies[2].name
    /\ allDependencies[1].version = allDependencies[2].version
    /\ ~GoSumModules[1].suffixed /\ GoSumModules[2].suffixed
    /\ Len(inventory.dependencies) = 2
    /\ inventory.dependencies[1].version = <<"v","0",".","9",".","1">>

\* ========================================================================
\* Properties of a run of submit.sh
\* ========================================================================

\* C12: when the submission failed, by a response that is not 2xx or by a
\* request that got no response, submit.sh exits nonzero if FAIL_ON_ERROR is
\* 'true' (also by default) and exits 0 if FAIL_ON_ERROR is 'false'.
C12_FailureHonoursFailOnError ==
    (/\ shPc = "exited"
     /\ HTTP_CODE # <<>>
     /\ (curlStatus # 0 \/ ~(ToNumber(HTTP_CODE) \in 200..299))) =>
        /\ FAIL_ON_ERROR = Str.true => exitStatus # 0
        /\ FAIL_ON_ERROR = Str.false => exitStatus = 0

\* C13: once curl has returned with a response code c, the lines appended to
\* $GITHUB_OUTPUT hold status=success exactly when 200 <= c < 300, and
\* status=failed exactly when not; never both.
C13_StatusSignalMatchesCode ==
    (shPc \in {"cleanup", "exited"} /\ HTTP_CODE # <<>> /\ curlStatus = 0) =>
        LET c == ToNumber(HTTP_CODE)
            success == \E i \in DOMAIN stepOutput : stepOutput[i] = Str.status_success
            failed == \E i \in DOMAIN stepOutput : stepOutput[i] = Str.status_failed
        IN  /\ success <=> (200 <= c /\ c < 300)
            /\ failed <=> ~(200 <= c /\ c < 300)
            /\ ~(success /\ failed)

\* a run that got the response code 300 with FAIL_ON_ERROR false, at its end
C13_FailedSignalFor300 ==
    /\ shPc = "exited"
    /\ FAIL_ON_ERROR = Str.false
    /\ curlStatus = 0
    /\ HTTP_CODE = <<"3","0","0">>
    /\ stepOutput = <<Str.packages_count \o <<"1","2">>, Str.status_failed>>
    /\ exitStatus = 0

\* C24: a run of submit.sh that finds the inventory document has, when it
\* exits, appended the packages_count line and exactly one status line,
\* status=success or status=failed, to $GITHUB_OUTPUT, whatever the request
\* ended with and whatever FAIL_ON_ERROR is; a run that does not find the
\* file exits with a nonzero status and has sent no request.
C24_OutputsBeforeExit ==
    (/\ shPc = "exited"
     /\ WORKER_URL # <<>>
     /\ AUTH_TOKEN # <<>>) =>
        /\ (inventoryFile.exists /\ inventoryFile.json) =>
              /\ Cardinality({k \in DOMAIN stepOutput :
                     stepOutput[k] = Str.packages_count \o PACKAGES_COUNT}) = 1
              /\ Cardinality({k \in DOMAIN stepOutput :
                     stepOutput[k] \in {Str.status_success, Str.status_failed}}) = 1
        /\ ~inventoryFile.exists =>
              /\ exitStatus # 0
              /\ HTTP_CODE = <<>>
              /\ ~responseFile

====
